---- MODULE Spec2Model ----
(***************************************************************************)
(* Synthetic monitoring of the LEGO AT-AT product page: the entry points   *)
(* of src/src/main.js (the getProductData variant, lines 11-239, and the   *)
(* retry-helper variant, lines 283-553) and of src/unnamed/part_002 (the   *)
(* variant without retries), as state machines over their awaits.  Every   *)
(* external call (execSync, puppeteer, storage) is an environment choice   *)
(* between returning and throwing.                                         *)
(***************************************************************************)
EXTENDS Integers, Sequences, FiniteSets, TLC

VARIABLES
    variant,      \* which entry point runs: "gpd", "rh", "plain", "cart", "all", or "unit" (retry alone)
    env,          \* process.env: the value of each required key
    nodeEnv,      \* process.env.NODE_ENV
    cart,         \* add-to-cart script: the module's `installed` flag and its container
    twin,         \* add-to-cart script: the same invocation when `installed` was reset
    reads,        \* Promise.all variant: the two $eval promises, in the order they settled
    net,          \* request interception: which handler, whether it is on, the requests resolved
    epc,          \* position of the entry point (the default export)
    browser,      \* the `browser` local: "none" (undefined), "open", "closed"
    closeCalls,   \* invocations of browser.close()
    launchCalls,  \* invocations of puppeteer.launch()
    installCalls, \* invocations of the apk install command
    report,       \* the value the entry point returns (built before `finally`)
    thrown,       \* the error the entry point's promise rejects with
    error,        \* the `error` caught by the catch block in force
    cur,          \* gpd: retryCount of the running getProductData call
    apc,          \* position of the running pipeline (attempt body / main try block)
    page,         \* page[i]: the page made by browser.newPage() number i
    closeSt,      \* gpd: closeSt[i]: page.close() of call i in the finally block
    completion,   \* gpd: completion[i]: what call i does once its finally block is through
    G,            \* gpd: G[i]: the promise of getProductData(i)
    availability, \* the extracted availability string (availabilityMetaContent)
    isAvailable,  \* rh/plain: the isAvailable local
    price,        \* the extracted price string
    navStatus,    \* status of the last response page.goto returned (0: none)
    did,          \* steps of the current page load / attempt that completed
    uploadResult, \* $id of the primary upload (0: none)
    nextId,       \* storage: ids handed out by createFile so far
    cnt,          \* counters of external calls
    rOp,          \* retry(): the operation being retried
    rAttempts,    \* retry(): its `attempts` argument
    rI,           \* retry(): the loop variable i
    rPc,          \* retry(): position in the loop
    rCalls,       \* retry(): invocations of operation so far in this call
    rDelay,       \* retry(): its `delay` argument (ms)
    rDelays,      \* retry(): delays waited so far in this call
    rLog,         \* retry(): the invocations and waits of this call, in order
    rErrs,        \* retry(): the errors operation threw, in order
    rResult       \* retry(): how the call ended: a value, undefined, or a rethrown error

vars == <<variant, env, nodeEnv, cart, twin, reads, net, epc, browser, closeCalls, launchCalls, installCalls,
          report, thrown, error, cur, apc, page, closeSt, completion, G,
          availability, isAvailable, price, navStatus, did, uploadResult, nextId,
          cnt, rOp, rAttempts, rI, rPc, rCalls, rDelay, rDelays, rLog, rErrs, rResult>>

cfgVars   == <<variant, env, nodeEnv>>
cartVars  == <<cart, twin, reads, net>>
entryVars == <<epc, browser, closeCalls, launchCalls, installCalls, report, thrown>>
retryVars == <<rOp, rAttempts, rI, rPc, rCalls, rDelay, rDelays, rLog, rErrs, rResult>>
gpdVars   == <<cur, closeSt, completion, G>>
dataVars  == <<availability, isAvailable, price, navStatus, uploadResult>>
pipeVars  == <<error, apc, page, did, nextId, cnt>>

----------------------------------------------------------------------------
(* Program constants *)

MAX_RETRIES == 3
RETRY_ATTEMPTS == 3
RETRY_DELAY == 1000
GPD_RETRY_DELAY == 5000

(* Bounds of the model *)

MaxUnitAttempts == 3     \* retry() alone is called with attempts in 0..MaxUnitAttempts
MaxRuns == 4             \* runs one container of the add-to-cart script serves

RequiredVars ==
    <<"APPWRITE_ENDPOINT", "APPWRITE_PROJECT_ID", "APPWRITE_API_KEY", "APPWRITE_BUCKET_ID">>

RequiredKeys == {RequiredVars[i] : i \in 1..Len(RequiredVars)}

Statuses == {200, 404}

----------------------------------------------------------------------------
(* Strings the code computes on are sequences of characters. *)

UpperCase ==
    <<"A","B","C","D","E","F","G","H","I","J","K","L","M",
      "N","O","P","Q","R","S","T","U","V","W","X","Y","Z">>
LowerCase ==
    <<"a","b","c","d","e","f","g","h","i","j","k","l","m",
      "n","o","p","q","r","s","t","u","v","w","x","y","z">>

ToLowerChar(c) ==
    IF \E i \in 1..Len(UpperCase) : UpperCase[i] = c
    THEN LowerCase[CHOOSE i \in 1..Len(UpperCase) : UpperCase[i] = c]
    ELSE c

toLowerCase(s) == [i \in 1..Len(s) |-> ToLowerChar(s[i])]

includes(s, sub) ==
    \E k \in 0..(Len(s) - Len(sub)) : \A j \in 1..Len(sub) : s[k + j] = sub[j]

instock   == <<"i","n","s","t","o","c","k">>
backorder == <<"b","a","c","k","o","r","d","e","r">>

SchemaOrg == <<"h","t","t","p",":","/","/","s","c","h","e","m","a",".","o","r","g","/">>

AvailInStock    == SchemaOrg \o <<"I","n","S","t","o","c","k">>
AvailOutOfStock == SchemaOrg \o <<"O","u","t","O","f","S","t","o","c","k">>
AvailBackOrder  == SchemaOrg \o <<"B","a","c","k","O","r","d","e","r">>
AvailOnBack     == <<"O","n","B","a","c","k","O","r","d","e","r">>
AvailSpaced     == <<"i","n"," ","s","t","o","c","k">>
AvailEmpty      == << >>

(* What meta[itemprop="availability"].content can read as. *)
AvailValues ==
    {AvailInStock, AvailOutOfStock, AvailBackOrder, AvailOnBack, AvailSpaced, AvailEmpty}

PriceValues == {"849.99"}

IsAvailableMutantNoBackorder(a) == includes(toLowerCase(a), instock)

(* availability.toLowerCase().includes('instock') || ...includes('backorder') *)
IsAvailable(a) ==
    includes(toLowerCase(a), instock) \/ includes(toLowerCase(a), backorder)

----------------------------------------------------------------------------
(* Errors: the operation that threw and the attempt / invocation it threw in. *)

Err(kind, at) == [kind |-> kind, at |-> at]
NoErr == Err("none", 0)

NoValue == [isAvailable |-> FALSE, availability |-> << >>, price |-> "", screenshotId |-> 0]

Pending       == [st |-> "pending",   val |-> NoValue, err |-> NoErr]
Adopt         == [st |-> "adopt",     val |-> NoValue, err |-> NoErr]
Fulfilled(v)  == [st |-> "fulfilled", val |-> v,       err |-> NoErr]
Rejected(e)   == [st |-> "rejected",  val |-> NoValue, err |-> e]
Unused        == [st |-> "unused",    val |-> NoValue, err |-> NoErr]

Calls == 0..(MAX_RETRIES - 1)

(* retry(): how a call ended, and what it did *)
NoResult == [kind |-> "none", val |-> "", err |-> NoErr]

OpCall == [ev |-> "op", ms |-> 0]
Waited(ms) == [ev |-> "wait", ms |-> ms]

(* retry() on its own: what its operation returns and throws, and its delay argument *)
UnitValues == {"v1", "v2"}
UnitErrors == {"timeout", "refused"}
UnitDelays == {RETRY_DELAY, GPD_RETRY_DELAY}

(* The promise a caller of getProductData(i) observes: a call that returned the
   promise of the next call settles as that promise does. *)
RECURSIVE Settled(_)
Settled(i) ==
    IF G[i].st = "adopt" /\ i + 1 \in Calls THEN Settled(i + 1) ELSE G[i]

NoReport == [statusCode |-> 0, body |-> [none |-> TRUE]]

(* did.nav: page.goto returned; did.ext: an extraction step (waitForSelector, $eval)
   was called; did.avail, did.price, did.shot, did.upload: the step returned;
   did.errFail: the error-path screenshot or its upload threw; did.errShotOn: the
   index in `page` of the page the error-path screenshot was called on *)
NoDid == [nav |-> FALSE, ext |-> FALSE, avail |-> FALSE, price |-> FALSE,
          shot |-> FALSE, upload |-> FALSE, errFail |-> FALSE, errShotOn |-> -1]

ZeroCnt == [newPage |-> 0, goto |-> 0, navFail |-> 0, uploadOk |-> 0, uploadFail |-> 0,
            errShot |-> 0,
            errUploadOk |-> 0, delay |-> 0, pageClose |-> 0]

Bump(c, k) == [c EXCEPT ![k] = @ + 1]

----------------------------------------------------------------------------
(* Reports *)

(* a value of process.env: undefined, or a string *)
Absent == [defined |-> FALSE, value |-> ""]
Str(s) == [defined |-> TRUE, value |-> s]

EnvValues == {Absent, Str(""), Str("set")}

(* !value *)
Falsy(v) == ~v.defined \/ v.value = ""

AllSet == [k \in RequiredKeys |-> Str("set")]

NodeEnvValues == {Absent, Str("development")}

(* main.js:228: process.env.NODE_ENV === 'development' *)
Development(v) == v = Str("development")

missingVarsMutantAbsentOnly == SelectSeq(RequiredVars, LAMBDA k : ~env[k].defined)

(* main.js:23-25: Object.entries(requiredVars).filter(([_, value]) => !value)
   .map(([key]) => key) *)
missingVars == SelectSeq(RequiredVars, LAMBDA k : Falsy(env[k]))

MissingReport ==
    [statusCode |-> 500,
     body |-> [text |-> IF variant = "gpd" THEN "Missing environment variables"
                        ELSE "Missing required Appwrite configuration environment variables",
               keys |-> missingVars]]

InstallFailedReport ==
    [statusCode |-> 500,
     body |-> [text |-> IF variant = "plain" THEN "Error installing Chromium"
                        ELSE "Chromium installation failed",
               message |-> Err("install", 0)]]

SuccessValueMutantStale(a, p, id) ==
    [isAvailable |-> IsAvailable(a), availability |-> a, price |-> p,
     screenshotId |-> IF id > 1 THEN id - 1 ELSE id]

(* main.js:159-165: what getProductData returns *)
SuccessValue(a, p, id) ==
    [isAvailable |-> IsAvailable(a), availability |-> a, price |-> p, screenshotId |-> id]

GpdSuccessReportMutantFirstId(productData) ==
    [statusCode |-> 200,
     body |-> [isAvailable  |-> productData.isAvailable,
               availability |-> productData.availability,
               price        |-> productData.price,
               screenshotId |-> 1,
               timestamp    |-> "timestamp",
               executionTimeMs |-> "elapsed",
               success      |-> TRUE]]

(* main.js:209-217 *)
GpdSuccessReport(productData) ==
    [statusCode |-> 200,
     body |-> [isAvailable  |-> productData.isAvailable,
               availability |-> productData.availability,
               price        |-> productData.price,
               screenshotId |-> productData.screenshotId,
               timestamp    |-> "timestamp",
               executionTimeMs |-> "elapsed",
               success      |-> TRUE]]

GpdFailureReportMutantOk(e) ==
    [statusCode |-> 200,
     body |-> [error |-> e, executionTimeMs |-> "elapsed", success |-> FALSE]]

(* main.js:223-232; JSON.stringify leaves out the undefined stack *)
GpdFailureReport(e) ==
    [statusCode |-> 500,
     body |-> IF Development(nodeEnv)
              THEN [error |-> e, stack |-> e, executionTimeMs |-> "elapsed",
                    success |-> FALSE]
              ELSE [error |-> e, executionTimeMs |-> "elapsed", success |-> FALSE]]

(* main.js:493-502, part_002:206-215 *)
RhSuccessReport(avail, content, id) ==
    [statusCode |-> 200,
     body |-> [isAvailable        |-> avail,
               availabilityStatus |-> content,
               executionTimeMs    |-> "elapsed",
               screenshotFileId   |-> id]]

(* main.js:539-546, part_002:249-256 *)
RhFailureReport(e) ==
    [statusCode |-> 500, body |-> [error |-> e, stack |-> e]]

(* part_001:4: let installed = false, in a container that has served no run and
   holds no browser process *)
NewContainer == [installed |-> FALSE, runs |-> 0, browsers |-> 0, available |-> FALSE]

(* part_001:6-41: the invocation as it runs when the module's `installed` is
   false on entry: its position, its `available`, and what it returns *)
NoTwin == [pc |-> "idle", available |-> FALSE, report |-> NoReport]

(* the two request handlers: main.js:92-99 and part_005:65-82 *)
Handlers == {"main", "part_005"}

(* part_004:99-102: no $eval call made yet *)
NoReads == [p |-> <<[st |-> "none"], [st |-> "none"]>>, order |-> << >>]

(* main.js:315-318 *)
ConnectionFailedReport ==
    [statusCode |-> 500, body |-> [text |-> "Failed to establish connection with Appwrite"]]

----------------------------------------------------------------------------
Variants == {"gpd", "rh", "plain"}

InitFor(v) ==
    /\ variant = v
    /\ env \in IF v \in {"unit", "cart", "all", "filter"} THEN {AllSet} ELSE [RequiredKeys -> EnvValues]
    /\ nodeEnv \in IF v \in {"unit", "cart", "all", "filter"} THEN {Absent} ELSE NodeEnvValues
    /\ cart = NewContainer
    /\ twin = NoTwin
    /\ reads = NoReads
    /\ net \in IF v = "filter"
               THEN {[handler |-> h, on |-> FALSE, log |-> << >>] : h \in Handlers}
               ELSE {[handler |-> "none", on |-> FALSE, log |-> << >>]}
    /\ epc = IF v = "unit" THEN "unit" ELSE IF v = "cart" THEN "idle"
             ELSE IF v = "all" THEN "launch"
             ELSE IF v = "filter" THEN "setup" ELSE "validate"
    /\ browser = "none"
    /\ closeCalls = 0
    /\ launchCalls = 0
    /\ installCalls = 0
    /\ report = NoReport
    /\ thrown = NoErr
    /\ error = NoErr
    /\ cur = 0
    /\ apc = "idle"
    /\ page = [i \in 0..MAX_RETRIES |-> "none"]
    /\ closeSt = [i \in Calls |-> "none"]
    /\ completion = [i \in Calls |-> Unused]
    /\ G = [i \in Calls |-> Unused]
    /\ availability = << >>
    /\ isAvailable = FALSE
    /\ price = ""
    /\ navStatus = 0
    /\ did = NoDid
    /\ uploadResult = 0
    /\ nextId = 0
    /\ cnt = ZeroCnt
    /\ rOp = IF v = "unit" THEN "unit" ELSE "none"
    /\ rAttempts \in IF v = "unit" THEN (-1)..MaxUnitAttempts ELSE {0}
    /\ rI = 0
    /\ rPc = IF v = "unit" THEN "loop" ELSE "idle"
    /\ rCalls = 0
    /\ rDelay \in IF v = "unit" THEN UnitDelays ELSE {0}
    /\ rDelays = 0
    /\ rLog = << >>
    /\ rErrs = << >>
    /\ rResult = NoResult

Init == \E v \in Variants : InitFor(v)

----------------------------------------------------------------------------
(* The entry point up to puppeteer.launch *)

ReturnInTryMutantNoFinally == "returned"

(* main.js:209-238: a `return` inside try or catch computes the value and hands
   control to the finally block; the caller gets the value when that block ends *)
ReturnInTry == "finally"

(* main.js:23-30 *)
Validate ==
    /\ epc = "validate"
    /\ IF Len(missingVars) > 0
       THEN /\ report' = MissingReport
            /\ epc' = "returned"
       ELSE /\ epc' = IF variant = "rh" THEN "connect" ELSE "chromium"
            /\ UNCHANGED report
    /\ UNCHANGED <<browser, closeCalls, launchCalls, installCalls, thrown>>
    /\ UNCHANGED <<cartVars, cfgVars, pipeVars, gpdVars, dataVars, retryVars>>

(* main.js:42-46: execSync('chromium-browser --version') *)
ChromiumCheck ==
    /\ epc = "chromium"
    /\ \E ok \in BOOLEAN : epc' = IF ok THEN "launch" ELSE "install"
    /\ UNCHANGED <<browser, closeCalls, launchCalls, installCalls, report, thrown>>
    /\ UNCHANGED <<cartVars, cfgVars, pipeVars, gpdVars, dataVars, retryVars>>


InstallMutantLaunchesAnyway ==
    /\ epc = "install"
    /\ installCalls' = installCalls + 1
    /\ \E ok \in BOOLEAN :
         IF ok THEN epc' = "launch" /\ UNCHANGED report
         ELSE epc' = "launch" /\ report' = InstallFailedReport
    /\ UNCHANGED <<browser, closeCalls, launchCalls, thrown>>
    /\ UNCHANGED <<cartVars, cfgVars, pipeVars, gpdVars, dataVars, retryVars>>

(* main.js:47-57: execSync('apk update && apk add ...') *)
Install ==
    /\ epc = "install"
    /\ installCalls' = installCalls + 1
    /\ \E ok \in BOOLEAN :
         IF ok THEN epc' = "launch" /\ UNCHANGED report
         ELSE epc' = "returned" /\ report' = InstallFailedReport
    /\ UNCHANGED <<browser, closeCalls, launchCalls, thrown>>
    /\ UNCHANGED <<cartVars, cfgVars, pipeVars, gpdVars, dataVars, retryVars>>

----------------------------------------------------------------------------
(* The getProductData variant, main.js:11-239 *)


ShouldRetryMutantGivesUpEarly(retryCount) == retryCount < MAX_RETRIES - 2

ShouldRetryMutantNeverGivesUp(retryCount) == TRUE

(* main.js:192: if (retryCount < MAX_RETRIES - 1) *)
ShouldRetry(retryCount) == retryCount < MAX_RETRIES - 1

(* main.js:60-80 and 205: launch, then the call getProductData() runs up to its
   first await, browser.newPage(); main.js:219-232 when launch throws *)
GpdLaunch ==
    /\ variant = "gpd"
    /\ epc = "launch"
    /\ launchCalls' = launchCalls + 1
    /\ \E ok \in BOOLEAN :
         IF ok
         THEN /\ browser' = "open"
              /\ epc' = "awaitG"
              /\ cur' = 0
              /\ G' = [G EXCEPT ![0] = Pending]
              /\ apc' = "newPage"
              /\ cnt' = Bump(cnt, "newPage")
              /\ UNCHANGED report
         ELSE /\ report' = GpdFailureReport(Err("launch", 0))
              /\ epc' = ReturnInTry
              /\ UNCHANGED <<browser, cur, G, apc, cnt>>
    /\ UNCHANGED <<closeCalls, installCalls, thrown, error, page, did, nextId,
                   closeSt, completion>>
    /\ UNCHANGED <<cartVars, cfgVars, dataVars, retryVars>>


GpdNewPageMutantInsideTry ==
    /\ variant = "gpd"
    /\ apc = "newPage"
    /\ \E ok \in BOOLEAN :
         IF ok
         THEN /\ page' = [page EXCEPT ![cur] = "open"]
              /\ apc' = "setup"
              /\ UNCHANGED error
         ELSE /\ error' = Err("newPage", cur)
              /\ apc' = "errShot"
              /\ UNCHANGED page
    /\ UNCHANGED <<G, did, nextId, cnt, cur, closeSt, completion>>
    /\ UNCHANGED <<cartVars, cfgVars, entryVars, dataVars, retryVars>>

(* main.js:83: const page = await browser.newPage(), outside the try block *)
GpdNewPage ==
    /\ variant = "gpd"
    /\ apc = "newPage"
    /\ \E ok \in BOOLEAN :
         IF ok
         THEN /\ page' = [page EXCEPT ![cur] = "open"]
              /\ apc' = "setup"
              /\ UNCHANGED G
         ELSE /\ G' = [G EXCEPT ![cur] = Rejected(Err("newPage", cur))]
              /\ apc' = "ended"
              /\ UNCHANGED page
    /\ UNCHANGED <<error, did, nextId, cnt, cur, closeSt, completion>>
    /\ UNCHANGED <<cartVars, cfgVars, entryVars, dataVars, retryVars>>

(* main.js:167-168: the catch block is entered with `error` *)
GpdCatch(e) ==
    /\ error' = e
    /\ apc' = "errShot"

(* main.js:88-107: setUserAgent, setRequestInterception, setCookie *)
GpdSetup ==
    /\ variant = "gpd"
    /\ apc = "setup"
    /\ \E ok \in BOOLEAN :
         IF ok THEN apc' = "goto" /\ UNCHANGED error
         ELSE GpdCatch(Err("setup", cur))
    /\ UNCHANGED <<page, did, nextId, cnt>>
    /\ UNCHANGED <<cartVars, cfgVars, entryVars, gpdVars, dataVars, retryVars>>

(* main.js:111-118: page.goto and the status check *)
GpdGoto ==
    /\ variant = "gpd"
    /\ apc = "goto"
    /\ \/ /\ GpdCatch(Err("goto", cur))
          /\ cnt' = Bump(Bump(cnt, "goto"), "navFail")
          /\ UNCHANGED <<navStatus, did>>
       \/ \E s \in Statuses :
            /\ navStatus' = s
            /\ IF s # 200
               THEN /\ GpdCatch(Err("http", cur))
                    /\ cnt' = Bump(Bump(cnt, "goto"), "navFail")
                    /\ UNCHANGED did
               ELSE /\ apc' = "waitSel"
                    /\ did' = [did EXCEPT !.nav = TRUE]
                    /\ cnt' = Bump(cnt, "goto")
                    /\ UNCHANGED error
    /\ UNCHANGED <<page, nextId, availability, isAvailable, price, uploadResult>>
    /\ UNCHANGED <<cartVars, cfgVars, entryVars, gpdVars, retryVars>>

(* main.js:121: page.waitForSelector('span[itemprop="offers"]') *)
GpdWaitSel ==
    /\ variant = "gpd"
    /\ apc = "waitSel"
    /\ \E ok \in BOOLEAN :
         IF ok THEN apc' = "evalAvail" /\ UNCHANGED error
         ELSE GpdCatch(Err("waitSel", cur))
    /\ did' = [did EXCEPT !.ext = TRUE]
    /\ UNCHANGED <<page, nextId, cnt>>
    /\ UNCHANGED <<cartVars, cfgVars, entryVars, gpdVars, dataVars, retryVars>>

(* main.js:125-128: $eval of the availability selector *)
GpdEvalAvail ==
    /\ variant = "gpd"
    /\ apc = "evalAvail"
    /\ \/ /\ GpdCatch(Err("evalAvail", cur))
          /\ UNCHANGED <<availability, did>>
       \/ \E a \in AvailValues :
            /\ availability' = a
            /\ did' = [did EXCEPT !.avail = TRUE]
            /\ apc' = "evalPrice"
            /\ UNCHANGED error
    /\ UNCHANGED <<page, nextId, cnt, isAvailable, price, navStatus, uploadResult>>
    /\ UNCHANGED <<cartVars, cfgVars, entryVars, gpdVars, retryVars>>

(* main.js:130-133: $eval of the price selector *)
GpdEvalPrice ==
    /\ variant = "gpd"
    /\ apc = "evalPrice"
    /\ \/ /\ GpdCatch(Err("evalPrice", cur))
          /\ UNCHANGED <<price, did>>
       \/ \E p \in PriceValues :
            /\ price' = p
            /\ did' = [did EXCEPT !.price = TRUE]
            /\ apc' = "shot"
            /\ UNCHANGED error
    /\ UNCHANGED <<page, nextId, cnt, availability, isAvailable, navStatus, uploadResult>>
    /\ UNCHANGED <<cartVars, cfgVars, entryVars, gpdVars, retryVars>>

(* main.js:139-142: page.screenshot *)
GpdShot ==
    /\ variant = "gpd"
    /\ apc = "shot"
    /\ \E ok \in BOOLEAN :
         IF ok THEN /\ apc' = "upload"
                    /\ did' = [did EXCEPT !.shot = TRUE]
                    /\ UNCHANGED error
         ELSE GpdCatch(Err("screenshot", cur)) /\ UNCHANGED did
    /\ UNCHANGED <<page, nextId, cnt>>
    /\ UNCHANGED <<cartVars, cfgVars, entryVars, gpdVars, dataVars, retryVars>>

(* main.js:152-165 and 198-201: storage.createFile; on success the call returns its
   value through the finally block, which calls page.close() *)
GpdUpload ==
    /\ variant = "gpd"
    /\ apc = "upload"
    /\ \E ok \in BOOLEAN :
         IF ok
         THEN /\ nextId' = nextId + 1
              /\ uploadResult' = nextId + 1
              /\ did' = [did EXCEPT !.upload = TRUE]
              /\ completion' = [completion EXCEPT
                    ![cur] = Fulfilled(SuccessValue(availability, price, nextId + 1))]
              /\ closeSt' = [closeSt EXCEPT ![cur] = "pending"]
              /\ cnt' = Bump(Bump(cnt, "uploadOk"), "pageClose")
              /\ apc' = "ended"
              /\ UNCHANGED error
         ELSE /\ GpdCatch(Err("upload", cur))
              /\ cnt' = Bump(cnt, "uploadFail")
              /\ UNCHANGED <<nextId, uploadResult, did, completion, closeSt>>
    /\ UNCHANGED <<page, cur, G, availability, isAvailable, price, navStatus>>
    /\ UNCHANGED <<cartVars, cfgVars, entryVars, retryVars>>


GpdAfterErrorShotMutantDelayBeforeThrow(c) ==
    IF ShouldRetry(cur)
    THEN /\ apc' = "delay"
         /\ cnt' = c
         /\ UNCHANGED <<completion, closeSt>>
    ELSE /\ apc' = "ended"
         /\ completion' = [completion EXCEPT ![cur] = Rejected(error)]
         /\ closeSt' = [closeSt EXCEPT ![cur] = "pending"]
         /\ cnt' = Bump(Bump(c, "delay"), "pageClose")

(* main.js:192-201: after the error screenshot, retry or rethrow; the rethrow goes
   through the finally block, which calls page.close() *)
GpdAfterErrorShot(c) ==
    IF ShouldRetry(cur)
    THEN /\ apc' = "delay"
         /\ cnt' = c
         /\ UNCHANGED <<completion, closeSt>>
    ELSE /\ apc' = "ended"
         /\ completion' = [completion EXCEPT ![cur] = Rejected(error)]
         /\ closeSt' = [closeSt EXCEPT ![cur] = "pending"]
         /\ cnt' = Bump(c, "pageClose")

(* main.js:171-176 and 188-190: page.screenshot of the error state *)
GpdErrShot ==
    /\ variant = "gpd"
    /\ apc = "errShot"
    /\ \E ok \in BOOLEAN :
         IF ok THEN /\ apc' = "errUpload"
                    /\ cnt' = Bump(cnt, "errShot")
                    /\ did' = [did EXCEPT !.errShotOn = cur]
                    /\ UNCHANGED <<completion, closeSt>>
         ELSE /\ GpdAfterErrorShot(Bump(cnt, "errShot"))
              /\ did' = [did EXCEPT !.errFail = TRUE, !.errShotOn = cur]
    /\ UNCHANGED <<error, page, nextId, cur, G>>
    /\ UNCHANGED <<cartVars, cfgVars, entryVars, dataVars, retryVars>>

(* main.js:182-190: storage.createFile of the error screenshot *)
GpdErrUpload ==
    /\ variant = "gpd"
    /\ apc = "errUpload"
    /\ \E ok \in BOOLEAN :
         /\ nextId' = IF ok THEN nextId + 1 ELSE nextId
         /\ did' = [did EXCEPT !.errFail = ~ok]
         /\ GpdAfterErrorShot(IF ok THEN Bump(cnt, "errUploadOk") ELSE cnt)
    /\ UNCHANGED <<error, page, cur, G>>
    /\ UNCHANGED <<cartVars, cfgVars, entryVars, dataVars, retryVars>>

(* main.js:194-201: the delay ends; `return getProductData(retryCount + 1)` runs the
   next call up to its browser.newPage(), and, the return value not being awaited,
   the finally block of this call then calls page.close() *)
GpdDelay ==
    /\ variant = "gpd"
    /\ apc = "delay"
    /\ cur' = cur + 1
    /\ G' = [G EXCEPT ![cur + 1] = Pending]
    /\ apc' = "newPage"
    /\ completion' = [completion EXCEPT ![cur] = Adopt]
    /\ closeSt' = [closeSt EXCEPT ![cur] = "pending"]
    /\ cnt' = Bump(Bump(Bump(cnt, "delay"), "newPage"), "pageClose")
    /\ error' = NoErr
    /\ did' = NoDid
    /\ availability' = << >>
    /\ price' = ""
    /\ navStatus' = 0
    /\ UNCHANGED <<page, nextId, isAvailable, uploadResult>>
    /\ UNCHANGED <<cartVars, cfgVars, entryVars, retryVars>>

(* main.js:199-201: page.close() of call i completes: the call's promise takes the
   call's completion, or rejects with what page.close() threw *)
GpdPageClosed ==
    /\ variant = "gpd"
    /\ \E i \in Calls :
         /\ closeSt[i] = "pending"
         /\ \E ok \in BOOLEAN :
              IF ok
              THEN /\ closeSt' = [closeSt EXCEPT ![i] = "ok"]
                   /\ page' = [page EXCEPT ![i] = "closed"]
                   /\ G' = [G EXCEPT ![i] = completion[i]]
              ELSE /\ closeSt' = [closeSt EXCEPT ![i] = "failed"]
                   /\ G' = [G EXCEPT ![i] = Rejected(Err("pageClose", i))]
                   /\ UNCHANGED page
    /\ UNCHANGED <<error, apc, did, nextId, cnt, cur, completion>>
    /\ UNCHANGED <<cartVars, cfgVars, entryVars, dataVars, retryVars>>

(* main.js:205-232: `await getProductData()` resumes with the value or the error *)
GpdResume ==
    /\ variant = "gpd"
    /\ epc = "awaitG"
    /\ Settled(0).st \in {"fulfilled", "rejected"}
    /\ report' = IF Settled(0).st = "fulfilled"
                 THEN GpdSuccessReport(Settled(0).val)
                 ELSE GpdFailureReport(Settled(0).err)
    /\ epc' = ReturnInTry
    /\ UNCHANGED <<browser, closeCalls, launchCalls, installCalls, thrown>>
    /\ UNCHANGED <<cartVars, cfgVars, pipeVars, gpdVars, dataVars, retryVars>>

BrowserSetMutantNever(b) == FALSE

(* main.js:234, 548; part_002:258: if (browser) *)
BrowserSet(b) == b # "none"

(* main.js:233-238: finally { if (browser) await browser.close() } *)
Finally ==
    /\ epc = "finally"
    /\ IF BrowserSet(browser)
       THEN /\ closeCalls' = closeCalls + 1
            /\ \E ok \in BOOLEAN :
                 IF ok
                 THEN /\ browser' = "closed"
                      /\ epc' = "returned"
                      /\ UNCHANGED <<report, thrown>>
                 ELSE /\ epc' = "rejected"
                      /\ thrown' = Err("browserClose", 0)
                      /\ report' = NoReport
                      /\ UNCHANGED browser
       ELSE /\ epc' = "returned"
            /\ UNCHANGED <<browser, closeCalls, report, thrown>>
    /\ UNCHANGED <<launchCalls, installCalls>>
    /\ UNCHANGED <<cartVars, cfgVars, pipeVars, gpdVars, dataVars, retryVars>>

----------------------------------------------------------------------------
(* retry(operation, attempts, delay, context), main.js:258-268 *)

RetryIsLastMutantOffByOne(i, attempts) == i = attempts - 2

(* main.js:263: if (i === attempts - 1) throw error *)
RetryIsLast(i, attempts) == i = attempts - 1

RetryLoopCondMutantDoWhile(i, attempts) == i = 0 \/ i < attempts

(* main.js:259: i < attempts *)
RetryLoopCond(i, attempts) == i < attempts

(* a call retry(op, attempts, delay, context) begins: let i = 0 *)
RetryStart(op, attempts, delay) ==
    /\ rOp' = op
    /\ rAttempts' = attempts
    /\ rDelay' = delay
    /\ rI' = 0
    /\ rPc' = "loop"
    /\ rCalls' = 0
    /\ rDelays' = 0
    /\ rLog' = << >>
    /\ rErrs' = << >>
    /\ rResult' = NoResult

(* main.js:259 and 268: the loop test; the loop left, the function returns undefined *)
RetryLoop ==
    /\ rPc = "loop"
    /\ IF RetryLoopCond(rI, rAttempts)
       THEN rPc' = "call" /\ UNCHANGED rResult
       ELSE rPc' = "returned" /\ rResult' = [kind |-> "undefined", val |-> "", err |-> NoErr]
    /\ UNCHANGED <<rOp, rAttempts, rI, rCalls, rDelay, rDelays, rLog, rErrs>>
    /\ UNCHANGED <<cartVars, cfgVars, entryVars, pipeVars, gpdVars, dataVars>>

(* main.js:261: return await operation(), operation() having returned v *)
RetryOpOk(v) ==
    /\ rCalls' = rCalls + 1
    /\ rLog' = Append(rLog, OpCall)
    /\ rPc' = "returned"
    /\ rResult' = [kind |-> "value", val |-> v, err |-> NoErr]
    /\ UNCHANGED <<rOp, rAttempts, rI, rDelay, rDelays, rErrs>>

(* main.js:262-265: operation() threw e *)
RetryOpFailed(e) ==
    /\ rCalls' = rCalls + 1
    /\ rLog' = Append(rLog, OpCall)
    /\ rErrs' = Append(rErrs, e)
    /\ IF RetryIsLast(rI, rAttempts)
       THEN rPc' = "threw" /\ rResult' = [kind |-> "threw", val |-> "", err |-> e]
       ELSE rPc' = "delay" /\ UNCHANGED rResult
    /\ UNCHANGED <<rOp, rAttempts, rI, rDelay, rDelays>>

(* main.js:265: await new Promise(resolve => setTimeout(resolve, delay)) *)
RetryWait(log, ms) == Append(log, Waited(ms))

(* main.js:265 and 259: the delay ends, i++ *)
RetryDelay ==
    /\ rPc = "delay"
    /\ rDelays' = rDelays + 1
    /\ rLog' = RetryWait(rLog, rDelay)
    /\ rI' = rI + 1
    /\ rPc' = "loop"
    /\ UNCHANGED <<rOp, rAttempts, rCalls, rDelay, rErrs, rResult>>
    /\ UNCHANGED <<cartVars, cfgVars, entryVars, pipeVars, gpdVars, dataVars>>

(* retry() called on its own with an operation that returns or throws at will *)
UnitOp ==
    /\ variant = "unit"
    /\ rOp = "unit"
    /\ rPc = "call"
    /\ \/ \E v \in UnitValues : RetryOpOk(v)
       \/ \E k \in UnitErrors : RetryOpFailed(Err(k, rCalls + 1))
    /\ UNCHANGED <<cartVars, cfgVars, entryVars, pipeVars, gpdVars, dataVars>>

----------------------------------------------------------------------------
(* The retry-helper variant, main.js:283-553 *)


RhConnectMutantAfterLaunch ==
    /\ variant = "rh"
    /\ epc = "connect"
    /\ \E ok \in BOOLEAN :
         IF ok THEN epc' = "chromium" /\ UNCHANGED <<report, launchCalls>>
         ELSE /\ epc' = "returned"
              /\ report' = ConnectionFailedReport
              /\ launchCalls' = launchCalls + 1
    /\ UNCHANGED <<browser, closeCalls, installCalls, thrown>>
    /\ UNCHANGED <<cartVars, cfgVars, pipeVars, gpdVars, dataVars, retryVars>>

(* main.js:313-319 and 271-281: validateAppwriteConnection *)
RhConnect ==
    /\ variant = "rh"
    /\ epc = "connect"
    /\ \E ok \in BOOLEAN :
         IF ok THEN epc' = "chromium" /\ UNCHANGED report
         ELSE epc' = "returned" /\ report' = ConnectionFailedReport
    /\ UNCHANGED <<browser, closeCalls, launchCalls, installCalls, thrown>>
    /\ UNCHANGED <<cartVars, cfgVars, pipeVars, gpdVars, dataVars, retryVars>>

RhCatchMutantAlwaysScreenshot(e) ==
    /\ error' = e
    /\ apc' = "errNewPage"

(* main.js:504-509: the catch block; with no browser it goes to the report *)
RhCatch(e) ==
    /\ error' = e
    /\ apc' = IF browser # "none" THEN "errNewPage" ELSE "errReport"

(* main.js:339-354 *)
RhLaunch ==
    /\ variant = "rh"
    /\ epc = "launch"
    /\ launchCalls' = launchCalls + 1
    /\ epc' = "try"
    /\ \E ok \in BOOLEAN :
         IF ok
         THEN /\ browser' = "open"
              /\ apc' = "newPage"
              /\ UNCHANGED error
         ELSE /\ UNCHANGED browser
              /\ RhCatch(Err("launch", 0))
    /\ UNCHANGED <<closeCalls, installCalls, report, thrown, page, did, nextId, cnt>>
    /\ UNCHANGED <<cartVars, cfgVars, gpdVars, dataVars, retryVars>>

(* main.js:356 *)
RhNewPage ==
    /\ variant = "rh"
    /\ apc = "newPage"
    /\ cnt' = Bump(cnt, "newPage")
    /\ \E ok \in BOOLEAN :
         IF ok
         THEN /\ page' = [page EXCEPT ![0] = "open"]
              /\ apc' = "setup"
              /\ UNCHANGED error
         ELSE /\ RhCatch(Err("newPage", 0))
              /\ UNCHANGED page
    /\ UNCHANGED <<did, nextId>>
    /\ UNCHANGED <<cartVars, cfgVars, entryVars, gpdVars, dataVars, retryVars>>

(* main.js:360-392: setRequestInterception, setExtraHTTPHeaders, then retry(goto) *)
RhSetup ==
    /\ variant = "rh"
    /\ apc = "setup"
    /\ \E ok \in BOOLEAN :
         IF ok
         THEN /\ apc' = "retry"
              /\ RetryStart("goto", RETRY_ATTEMPTS, RETRY_DELAY)
              /\ UNCHANGED error
         ELSE /\ RhCatch(Err("setup", 0))
              /\ UNCHANGED retryVars
    /\ UNCHANGED <<page, did, nextId, cnt>>
    /\ UNCHANGED <<cartVars, cfgVars, entryVars, gpdVars, dataVars>>

(* main.js:387-392: the operation of the navigation retry; the response is dropped *)
RhGoto ==
    /\ variant = "rh"
    /\ apc = "retry" /\ rOp = "goto" /\ rPc = "call"
    /\ \/ /\ RetryOpFailed(Err("goto", rCalls + 1))
          /\ cnt' = Bump(Bump(cnt, "goto"), "navFail")
          /\ UNCHANGED <<navStatus, did>>
       \/ \E s \in Statuses :
            /\ RetryOpOk("")
            /\ navStatus' = s
            /\ did' = [did EXCEPT !.nav = TRUE]
            /\ cnt' = Bump(cnt, "goto")
    /\ UNCHANGED <<error, apc, page, nextId, availability, isAvailable, price, uploadResult>>
    /\ UNCHANGED <<cartVars, cfgVars, entryVars, gpdVars>>

AgeGateOutcomes == {"absent", "noButton", "clickFailed", "navTimeout", "dismissed"}

RhAgeGateMutantRethrowsTimeout ==
    /\ variant = "rh"
    /\ apc = "retry" /\ rOp = "ageGate" /\ rPc = "call"
    /\ \E o \in AgeGateOutcomes :
         IF o = "navTimeout" THEN RetryOpFailed(Err("ageGate", rCalls + 1)) ELSE RetryOpOk(o)
    /\ UNCHANGED <<cartVars, cfgVars, entryVars, pipeVars, gpdVars, dataVars>>

RhAgeGateMutantThrows ==
    /\ variant = "rh"
    /\ apc = "retry" /\ rOp = "ageGate" /\ rPc = "call"
    /\ \E o \in AgeGateOutcomes :
         IF o = "dismissed" THEN RetryOpOk(o) ELSE RetryOpFailed(Err("ageGate", rCalls + 1))
    /\ UNCHANGED <<cartVars, cfgVars, entryVars, pipeVars, gpdVars, dataVars>>

(* main.js:396-418: the operation of the age-gate retry catches whatever it throws *)
RhAgeGate ==
    /\ variant = "rh"
    /\ apc = "retry" /\ rOp = "ageGate" /\ rPc = "call"
    /\ \E o \in AgeGateOutcomes : RetryOpOk(o)
    /\ UNCHANGED <<cartVars, cfgVars, entryVars, pipeVars, gpdVars, dataVars>>

(* main.js:422-432: the two waitForSelector calls; the error is rethrown *)
RhWaitContent ==
    /\ variant = "rh"
    /\ apc = "retry" /\ rOp = "waitContent" /\ rPc = "call"
    /\ \E ok \in BOOLEAN :
         IF ok THEN RetryOpOk("") ELSE RetryOpFailed(Err("waitSel", rCalls + 1))
    /\ did' = [did EXCEPT !.ext = TRUE]
    /\ UNCHANGED <<error, apc, page, nextId, cnt>>
    /\ UNCHANGED <<cartVars, cfgVars, entryVars, gpdVars, dataVars>>

(* main.js:435: await wait(page, 5000), then main.js:442 *)
RhWait ==
    /\ variant = "rh"
    /\ apc = "wait"
    /\ \E ok \in BOOLEAN :
         IF ok
         THEN /\ apc' = "retry"
              /\ RetryStart("extract", RETRY_ATTEMPTS, RETRY_DELAY)
              /\ UNCHANGED error
         ELSE /\ RhCatch(Err("evaluate", 0))
              /\ UNCHANGED retryVars
    /\ UNCHANGED <<page, did, nextId, cnt>>
    /\ UNCHANGED <<cartVars, cfgVars, entryVars, gpdVars, dataVars>>

(* main.js:442-457: $eval of the availability selector and the classification *)
RhExtract ==
    /\ variant = "rh"
    /\ apc = "retry" /\ rOp = "extract" /\ rPc = "call"
    /\ \/ /\ RetryOpFailed(Err("evalAvail", rCalls + 1))
          /\ UNCHANGED <<availability, isAvailable, did>>
       \/ \E a \in AvailValues :
            /\ RetryOpOk("")
            /\ availability' = a
            /\ isAvailable' = IsAvailable(a)
            /\ did' = [did EXCEPT !.avail = TRUE]
    /\ UNCHANGED <<error, apc, page, nextId, cnt, price, navStatus, uploadResult>>
    /\ UNCHANGED <<cartVars, cfgVars, entryVars, gpdVars>>

(* main.js:465-471 *)
RhShot ==
    /\ variant = "rh"
    /\ apc = "retry" /\ rOp = "screenshot" /\ rPc = "call"
    /\ \E ok \in BOOLEAN :
         IF ok THEN RetryOpOk("") /\ did' = [did EXCEPT !.shot = TRUE]
         ELSE RetryOpFailed(Err("screenshot", rCalls + 1)) /\ UNCHANGED did
    /\ UNCHANGED <<error, apc, page, nextId, cnt>>
    /\ UNCHANGED <<cartVars, cfgVars, entryVars, gpdVars, dataVars>>

(* main.js:479-485: storage.createFile of the screenshot *)
RhUpload ==
    /\ variant = "rh"
    /\ apc = "retry" /\ rOp = "upload" /\ rPc = "call"
    /\ \E ok \in BOOLEAN :
         IF ok
         THEN /\ RetryOpOk("id")
              /\ nextId' = nextId + 1
              /\ uploadResult' = nextId + 1
              /\ did' = [did EXCEPT !.upload = TRUE]
              /\ cnt' = Bump(cnt, "uploadOk")
         ELSE /\ RetryOpFailed(Err("upload", rCalls + 1))
              /\ cnt' = Bump(cnt, "uploadFail")
              /\ UNCHANGED <<nextId, uploadResult, did>>
    /\ UNCHANGED <<error, apc, page, availability, isAvailable, price, navStatus>>
    /\ UNCHANGED <<cartVars, cfgVars, entryVars, gpdVars>>

(* `await retry(...)` resumes in the try block with the operation's value *)
RhRetryReturned ==
    /\ variant = "rh"
    /\ apc = "retry" /\ rPc = "returned"
    /\ rOp \in {"goto", "ageGate", "waitContent", "extract", "screenshot", "upload"}
    /\ CASE rOp = "goto"        -> RetryStart("ageGate", RETRY_ATTEMPTS, RETRY_DELAY) /\ UNCHANGED <<apc, epc, report>>
         [] rOp = "ageGate"     -> RetryStart("waitContent", RETRY_ATTEMPTS, RETRY_DELAY) /\ UNCHANGED <<apc, epc, report>>
         [] rOp = "waitContent" -> apc' = "wait" /\ UNCHANGED <<retryVars, epc, report>>
         [] rOp = "extract"     -> RetryStart("screenshot", RETRY_ATTEMPTS, RETRY_DELAY) /\ UNCHANGED <<apc, epc, report>>
         [] rOp = "screenshot"  -> RetryStart("upload", RETRY_ATTEMPTS, RETRY_DELAY) /\ UNCHANGED <<apc, epc, report>>
         [] rOp = "upload"      -> /\ report' = RhSuccessReport(isAvailable, availability, uploadResult)
                                   /\ epc' = ReturnInTry
                                   /\ apc' = "ended"
                                   /\ UNCHANGED retryVars
    /\ UNCHANGED <<browser, closeCalls, launchCalls, installCalls, thrown>>
    /\ UNCHANGED <<error, page, did, nextId, cnt>>
    /\ UNCHANGED <<cartVars, cfgVars, gpdVars, dataVars>>

(* `await retry(...)` in the try block throws the last error of the operation *)
RhRetryThrew ==
    /\ variant = "rh"
    /\ apc = "retry" /\ rPc = "threw"
    /\ RhCatch(rErrs[Len(rErrs)])
    /\ UNCHANGED <<page, did, nextId, cnt>>
    /\ UNCHANGED <<cartVars, cfgVars, entryVars, gpdVars, dataVars, retryVars>>

(* main.js:511: a new page for the error screenshot; a throw ends the attempt *)
RhErrNewPage ==
    /\ variant = "rh"
    /\ apc = "errNewPage"
    /\ cnt' = Bump(cnt, "newPage")
    /\ \E ok \in BOOLEAN :
         IF ok THEN page' = [page EXCEPT ![1] = "open"] /\ apc' = "errShot" /\ UNCHANGED did
         ELSE apc' = "errReport" /\ did' = [did EXCEPT !.errFail = TRUE] /\ UNCHANGED page
    /\ UNCHANGED <<error, nextId>>
    /\ UNCHANGED <<cartVars, cfgVars, entryVars, gpdVars, dataVars, retryVars>>

RhErrShotMutantFailingPage ==
    /\ variant = "rh"
    /\ apc = "errShot"
    /\ cnt' = Bump(cnt, "errShot")
    /\ \E ok \in BOOLEAN :
         IF ok THEN /\ apc' = "errRetry"
                    /\ RetryStart("errUpload", RETRY_ATTEMPTS, RETRY_DELAY)
                    /\ did' = [did EXCEPT !.errShotOn = 0]
         ELSE /\ apc' = "errReport"
              /\ did' = [did EXCEPT !.errFail = TRUE, !.errShotOn = 0]
              /\ UNCHANGED retryVars
    /\ UNCHANGED <<error, page, nextId>>
    /\ UNCHANGED <<cartVars, cfgVars, entryVars, gpdVars, dataVars>>

(* main.js:516-530: errorPage.screenshot, then retry(createFile) *)
RhErrShot ==
    /\ variant = "rh"
    /\ apc = "errShot"
    /\ cnt' = Bump(cnt, "errShot")
    /\ \E ok \in BOOLEAN :
         IF ok THEN /\ apc' = "errRetry"
                    /\ RetryStart("errUpload", RETRY_ATTEMPTS, RETRY_DELAY)
                    /\ did' = [did EXCEPT !.errShotOn = 1]
         ELSE /\ apc' = "errReport"
              /\ did' = [did EXCEPT !.errFail = TRUE, !.errShotOn = 1]
              /\ UNCHANGED retryVars
    /\ UNCHANGED <<error, page, nextId>>
    /\ UNCHANGED <<cartVars, cfgVars, entryVars, gpdVars, dataVars>>

(* main.js:524-530: storage.createFile of the error screenshot *)
RhErrUpload ==
    /\ variant = "rh"
    /\ apc = "errRetry" /\ rOp = "errUpload" /\ rPc = "call"
    /\ \E ok \in BOOLEAN :
         IF ok
         THEN /\ RetryOpOk("id")
              /\ nextId' = nextId + 1
              /\ cnt' = Bump(cnt, "errUploadOk")
         ELSE /\ RetryOpFailed(Err("errUpload", rCalls + 1))
              /\ UNCHANGED <<nextId, cnt>>
    /\ UNCHANGED <<error, apc, page, did>>
    /\ UNCHANGED <<cartVars, cfgVars, entryVars, gpdVars, dataVars>>

(* main.js:532-537: the error upload returned, or its failure is caught *)
RhErrRetryDone ==
    /\ variant = "rh"
    /\ apc = "errRetry" /\ rPc \in {"returned", "threw"}
    /\ apc' = "errReport"
    /\ did' = [did EXCEPT !.errFail = (rPc = "threw")]
    /\ UNCHANGED <<error, page, nextId, cnt>>
    /\ UNCHANGED <<cartVars, cfgVars, entryVars, gpdVars, dataVars, retryVars>>

(* main.js:539-546 *)
RhErrReport ==
    /\ variant = "rh"
    /\ apc = "errReport"
    /\ report' = RhFailureReport(error)
    /\ epc' = ReturnInTry
    /\ apc' = "ended"
    /\ UNCHANGED <<browser, closeCalls, launchCalls, installCalls, thrown>>
    /\ UNCHANGED <<error, page, did, nextId, cnt>>
    /\ UNCHANGED <<cartVars, cfgVars, gpdVars, dataVars, retryVars>>

----------------------------------------------------------------------------
(* The variant without retries, part_002:15-263 *)

(* part_002:217-222: the catch block; with no browser it goes to the report *)
PlainCatch(e) ==
    /\ error' = e
    /\ apc' = IF browser # "none" THEN "errNewPage" ELSE "errReport"

(* part_002:68-83 *)
PlainLaunch ==
    /\ variant = "plain"
    /\ epc = "launch"
    /\ launchCalls' = launchCalls + 1
    /\ epc' = "try"
    /\ \E ok \in BOOLEAN :
         IF ok
         THEN /\ browser' = "open"
              /\ apc' = "newPage"
              /\ UNCHANGED error
         ELSE /\ UNCHANGED browser
              /\ PlainCatch(Err("launch", 0))
    /\ UNCHANGED <<closeCalls, installCalls, report, thrown, page, did, nextId, cnt>>
    /\ UNCHANGED <<cartVars, cfgVars, gpdVars, dataVars, retryVars>>

(* part_002:85 *)
PlainNewPage ==
    /\ variant = "plain"
    /\ apc = "newPage"
    /\ cnt' = Bump(cnt, "newPage")
    /\ \E ok \in BOOLEAN :
         IF ok
         THEN /\ page' = [page EXCEPT ![0] = "open"]
              /\ apc' = "setup"
              /\ UNCHANGED error
         ELSE /\ PlainCatch(Err("newPage", 0))
              /\ UNCHANGED page
    /\ UNCHANGED <<did, nextId>>
    /\ UNCHANGED <<cartVars, cfgVars, entryVars, gpdVars, dataVars, retryVars>>

(* part_002:89-112: setRequestInterception, setExtraHTTPHeaders *)
PlainSetup ==
    /\ variant = "plain"
    /\ apc = "setup"
    /\ \E ok \in BOOLEAN :
         IF ok THEN apc' = "goto" /\ UNCHANGED error
         ELSE PlainCatch(Err("setup", 0))
    /\ UNCHANGED <<page, did, nextId, cnt>>
    /\ UNCHANGED <<cartVars, cfgVars, entryVars, gpdVars, dataVars, retryVars>>

(* part_002:116-119: page.goto; the response is dropped *)
PlainGoto ==
    /\ variant = "plain"
    /\ apc = "goto"
    /\ \/ /\ PlainCatch(Err("goto", 0))
          /\ cnt' = Bump(Bump(cnt, "goto"), "navFail")
          /\ UNCHANGED <<navStatus, did>>
       \/ \E s \in Statuses :
            /\ navStatus' = s
            /\ did' = [did EXCEPT !.nav = TRUE]
            /\ cnt' = Bump(cnt, "goto")
            /\ apc' = "ageGate"
            /\ UNCHANGED error
    /\ UNCHANGED <<page, nextId, availability, isAvailable, price, uploadResult>>
    /\ UNCHANGED <<cartVars, cfgVars, entryVars, gpdVars, retryVars>>

(* part_002:123-143: the age gate; whatever it throws is caught *)
PlainAgeGate ==
    /\ variant = "plain"
    /\ apc = "ageGate"
    /\ \E o \in AgeGateOutcomes : apc' = "waitContent"
    /\ UNCHANGED <<error, page, did, nextId, cnt>>
    /\ UNCHANGED <<cartVars, cfgVars, entryVars, gpdVars, dataVars, retryVars>>

(* part_002:147-154: the two waitForSelector calls; a failure is logged only *)
PlainWaitContent ==
    /\ variant = "plain"
    /\ apc = "waitContent"
    /\ \E ok \in BOOLEAN : did' = [did EXCEPT !.ext = TRUE]
    /\ apc' = "wait"
    /\ UNCHANGED <<error, page, nextId, cnt>>
    /\ UNCHANGED <<cartVars, cfgVars, entryVars, gpdVars, dataVars, retryVars>>

(* part_002:157: await wait(page, 5000) *)
PlainWait ==
    /\ variant = "plain"
    /\ apc = "wait"
    /\ \E ok \in BOOLEAN :
         IF ok THEN apc' = "extract" /\ UNCHANGED error
         ELSE PlainCatch(Err("evaluate", 0))
    /\ UNCHANGED <<page, did, nextId, cnt>>
    /\ UNCHANGED <<cartVars, cfgVars, entryVars, gpdVars, dataVars, retryVars>>

(* part_002:161-175: $eval of the availability selector; a failure is logged only
   and leaves availabilityMetaContent = '' and isAvailable = false *)
PlainExtract ==
    /\ variant = "plain"
    /\ apc = "extract"
    /\ \/ UNCHANGED <<availability, isAvailable, did>>
       \/ \E a \in AvailValues :
            /\ availability' = a
            /\ isAvailable' = IsAvailable(a)
            /\ did' = [did EXCEPT !.avail = TRUE]
    /\ apc' = "shot"
    /\ UNCHANGED <<error, page, nextId, cnt, price, navStatus, uploadResult>>
    /\ UNCHANGED <<cartVars, cfgVars, entryVars, gpdVars, retryVars>>

(* part_002:182-185 *)
PlainShot ==
    /\ variant = "plain"
    /\ apc = "shot"
    /\ \E ok \in BOOLEAN :
         IF ok THEN /\ apc' = "upload"
                    /\ did' = [did EXCEPT !.shot = TRUE]
                    /\ UNCHANGED error
         ELSE PlainCatch(Err("screenshot", 0)) /\ UNCHANGED did
    /\ UNCHANGED <<page, nextId, cnt>>
    /\ UNCHANGED <<cartVars, cfgVars, entryVars, gpdVars, dataVars, retryVars>>

(* part_002:194-215: storage.createFile, then the success report *)
PlainUpload ==
    /\ variant = "plain"
    /\ apc = "upload"
    /\ \E ok \in BOOLEAN :
         IF ok
         THEN /\ nextId' = nextId + 1
              /\ uploadResult' = nextId + 1
              /\ did' = [did EXCEPT !.upload = TRUE]
              /\ cnt' = Bump(cnt, "uploadOk")
              /\ report' = RhSuccessReport(isAvailable, availability, nextId + 1)
              /\ epc' = ReturnInTry
              /\ apc' = "ended"
              /\ UNCHANGED error
         ELSE /\ PlainCatch(Err("upload", 0))
              /\ cnt' = Bump(cnt, "uploadFail")
              /\ UNCHANGED <<nextId, uploadResult, did, report, epc>>
    /\ UNCHANGED <<browser, closeCalls, launchCalls, installCalls, thrown>>
    /\ UNCHANGED <<page, availability, isAvailable, price, navStatus>>
    /\ UNCHANGED <<cartVars, cfgVars, gpdVars, retryVars>>

(* part_002:224: a new page for the error screenshot *)
PlainErrNewPage ==
    /\ variant = "plain"
    /\ apc = "errNewPage"
    /\ cnt' = Bump(cnt, "newPage")
    /\ \E ok \in BOOLEAN :
         IF ok THEN page' = [page EXCEPT ![1] = "open"] /\ apc' = "errShot" /\ UNCHANGED did
         ELSE apc' = "errReport" /\ did' = [did EXCEPT !.errFail = TRUE] /\ UNCHANGED page
    /\ UNCHANGED <<error, nextId>>
    /\ UNCHANGED <<cartVars, cfgVars, entryVars, gpdVars, dataVars, retryVars>>

(* part_002:229-232 *)
PlainErrShot ==
    /\ variant = "plain"
    /\ apc = "errShot"
    /\ cnt' = Bump(cnt, "errShot")
    /\ \E ok \in BOOLEAN :
         /\ apc' = IF ok THEN "errUpload" ELSE "errReport"
         /\ did' = [did EXCEPT !.errFail = ~ok, !.errShotOn = 1]
    /\ UNCHANGED <<error, page, nextId>>
    /\ UNCHANGED <<cartVars, cfgVars, entryVars, gpdVars, dataVars, retryVars>>

(* part_002:237-246: storage.createFile of the error screenshot *)
PlainErrUpload ==
    /\ variant = "plain"
    /\ apc = "errUpload"
    /\ \E ok \in BOOLEAN :
         IF ok THEN nextId' = nextId + 1 /\ cnt' = Bump(cnt, "errUploadOk") /\ UNCHANGED did
         ELSE did' = [did EXCEPT !.errFail = TRUE] /\ UNCHANGED <<nextId, cnt>>
    /\ apc' = "errReport"
    /\ UNCHANGED <<error, page>>
    /\ UNCHANGED <<cartVars, cfgVars, entryVars, gpdVars, dataVars, retryVars>>

(* part_002:249-256 *)
PlainErrReport ==
    /\ variant = "plain"
    /\ apc = "errReport"
    /\ report' = RhFailureReport(error)
    /\ epc' = ReturnInTry
    /\ apc' = "ended"
    /\ UNCHANGED <<browser, closeCalls, launchCalls, installCalls, thrown>>
    /\ UNCHANGED <<error, page, did, nextId, cnt>>
    /\ UNCHANGED <<cartVars, cfgVars, gpdVars, dataVars, retryVars>>

----------------------------------------------------------------------------
(* The add-to-cart script, part_001:1-41.  Its module-level flag `installed`
   outlives a run, so a container serves several runs in turn. *)

(* part_001:30-36: context.res.send of the availability text *)
CartReport(available) ==
    [send |-> IF available THEN "Product is available." ELSE "Product is not available."]

(* part_001:37-40: context.res.send(`Error: ${e.message}`) *)
CartErrorReport(e) == [send |-> "Error", error |-> e]

(* part_001:37-40: catch (e): nothing but the response; `browser` is a const of
   the try block and is not in scope here *)
CartCatch(e) ==
    /\ report' = CartErrorReport(e)
    /\ epc' = "returned"

(* part_001:7-40 in the invocation that entered with `installed` false: a step at
   position `at` returns and the script moves on to `to`, or throws `e` and the
   catch block sends the error *)
TwinStep(at, ok, to, e) ==
    IF twin.pc # at THEN twin
    ELSE IF ok THEN [twin EXCEPT !.pc = to]
    ELSE [twin EXCEPT !.pc = "returned", !.report = CartErrorReport(e)]

CartAlreadyInstalledMutantThrows ==
    /\ CartCatch(Err("install", cart.runs))

(* part_001:12-14: else { context.log('Chromium already installed.') } *)
CartAlreadyInstalled ==
    /\ epc' = "launch"
    /\ UNCHANGED report

CartFrame ==
    UNCHANGED <<reads, net, cfgVars, gpdVars, dataVars, retryVars, installCalls, thrown, error,
                apc, did, nextId, cnt>>

(* part_001:6: the runtime calls the exported function *)
CartInvoke ==
    /\ variant = "cart"
    /\ epc \in {"idle", "returned"}
    /\ cart.runs < MaxRuns
    /\ cart' = [cart EXCEPT !.runs = @ + 1, !.available = FALSE]
    /\ twin' = [pc |-> "install", available |-> FALSE, report |-> NoReport]
    /\ epc' = "install"
    /\ browser' = "none"
    /\ closeCalls' = 0
    /\ launchCalls' = 0
    /\ report' = NoReport
    /\ page' = [i \in DOMAIN page |-> "none"]
    /\ CartFrame

(* part_001:8-14: if (!installed) { execSync('apk add ...'); installed = true } *)
CartInstall ==
    /\ variant = "cart"
    /\ epc = "install"
    /\ IF ~cart.installed
       THEN \E ok \in BOOLEAN :
              /\ twin' = TwinStep("install", ok, "launch", Err("install", cart.runs))
              /\ IF ok
                 THEN /\ cart' = [cart EXCEPT !.installed = TRUE]
                      /\ epc' = "launch"
                      /\ UNCHANGED report
                 ELSE /\ CartCatch(Err("install", cart.runs))
                      /\ UNCHANGED cart
       ELSE /\ CartAlreadyInstalled
            /\ \E ok \in BOOLEAN :
                 twin' = TwinStep("install", ok, "launch", Err("install", cart.runs))
            /\ UNCHANGED cart
    /\ UNCHANGED <<browser, closeCalls, launchCalls, page>>
    /\ CartFrame

(* part_001:16-20: const browser = await puppeteer.launch(...) *)
CartLaunch ==
    /\ variant = "cart"
    /\ epc = "launch"
    /\ \E ok \in BOOLEAN :
         /\ twin' = TwinStep("launch", ok, "newPage", Err("launch", cart.runs))
         /\ IF ok
            THEN /\ browser' = "open"
                 /\ launchCalls' = launchCalls + 1
                 /\ cart' = [cart EXCEPT !.browsers = @ + 1]
                 /\ epc' = "newPage"
                 /\ UNCHANGED report
            ELSE /\ CartCatch(Err("launch", cart.runs))
                 /\ UNCHANGED <<browser, launchCalls, cart>>
    /\ UNCHANGED <<closeCalls, page>>
    /\ CartFrame

(* part_001:21: const page = await browser.newPage() *)
CartNewPage ==
    /\ variant = "cart"
    /\ epc = "newPage"
    /\ \E ok \in BOOLEAN :
         /\ twin' = TwinStep("newPage", ok, "goto", Err("newPage", cart.runs))
         /\ IF ok
            THEN /\ page' = [page EXCEPT ![0] = "open"]
                 /\ epc' = "goto"
                 /\ UNCHANGED report
            ELSE /\ CartCatch(Err("newPage", cart.runs))
                 /\ UNCHANGED page
    /\ UNCHANGED <<browser, closeCalls, launchCalls, cart>>
    /\ CartFrame

(* part_001:22: await page.goto(url); the response is dropped *)
CartGoto ==
    /\ variant = "cart"
    /\ epc = "goto"
    /\ \E ok \in BOOLEAN :
         /\ twin' = TwinStep("goto", ok, "query", Err("goto", cart.runs))
         /\ IF ok
            THEN epc' = "query" /\ UNCHANGED report
            ELSE CartCatch(Err("goto", cart.runs))
    /\ UNCHANGED <<browser, closeCalls, launchCalls, page, cart>>
    /\ CartFrame

(* part_001:25-26: const available = await page.$(availabilitySelector) !== null *)
CartQuery ==
    /\ variant = "cart"
    /\ epc = "query"
    /\ \/ \E found \in BOOLEAN :
            /\ cart' = [cart EXCEPT !.available = found]
            /\ twin' = IF twin.pc = "query"
                       THEN [twin EXCEPT !.pc = "close", !.available = found]
                       ELSE twin
            /\ epc' = "close"
            /\ UNCHANGED report
       \/ /\ CartCatch(Err("query", cart.runs))
          /\ twin' = TwinStep("query", FALSE, "close", Err("query", cart.runs))
          /\ UNCHANGED cart
    /\ UNCHANGED <<browser, closeCalls, launchCalls, page>>
    /\ CartFrame

(* part_001:28-36: await browser.close(), then the response *)
CartClose ==
    /\ variant = "cart"
    /\ epc = "close"
    /\ closeCalls' = closeCalls + 1
    /\ \E ok \in BOOLEAN :
         IF ok
         THEN /\ browser' = "closed"
              /\ page' = [i \in DOMAIN page |-> IF page[i] = "open" THEN "gone" ELSE page[i]]
              /\ cart' = [cart EXCEPT !.browsers = @ - 1]
              /\ report' = CartReport(cart.available)
              /\ twin' = IF twin.pc = "close"
                         THEN [twin EXCEPT !.pc = "returned",
                                           !.report = CartReport(twin.available)]
                         ELSE twin
              /\ epc' = "returned"
         ELSE /\ CartCatch(Err("browserClose", cart.runs))
              /\ twin' = TwinStep("close", FALSE, "returned", Err("browserClose", cart.runs))
              /\ UNCHANGED <<browser, page, cart>>
    /\ UNCHANGED launchCalls
    /\ CartFrame

NextCart ==
    \/ CartInvoke \/ CartInstall \/ CartLaunch \/ CartNewPage \/ CartGoto \/ CartQuery
    \/ CartClose

SpecCart == InitFor("cart") /\ [][NextCart]_vars

-----------------------------------------------------------------------------
(* The variant that reads availability and price concurrently (part_004:47-144;
   the same extraction in part_005:116-119 and part_001:268-271), from
   puppeteer.launch on *)

PromiseAllMutantCompletionOrder(p, order) ==
    IF \E k \in 1..Len(order) : p[order[k]].st = "rejected"
    THEN LET k == CHOOSE k \in 1..Len(order) :
                    /\ p[order[k]].st = "rejected"
                    /\ \A j \in 1..(k - 1) : p[order[j]].st # "rejected"
         IN  [st |-> "rejected", err |-> p[order[k]].err]
    ELSE IF \A i \in 1..Len(p) : p[i].st = "fulfilled"
    THEN [st |-> "fulfilled", val |-> [i \in 1..Len(p) |-> p[order[i]].val]]
    ELSE [st |-> "pending"]

(* Promise.all(p): rejects with the first rejection among its inputs, fulfils once
   every input has fulfilled, with the values in the order of the inputs *)
PromiseAll(p, order) ==
    IF \E k \in 1..Len(order) : p[order[k]].st = "rejected"
    THEN LET k == CHOOSE k \in 1..Len(order) :
                    /\ p[order[k]].st = "rejected"
                    /\ \A j \in 1..(k - 1) : p[order[j]].st # "rejected"
         IN  [st |-> "rejected", err |-> p[order[k]].err]
    ELSE IF \A i \in 1..Len(p) : p[i].st = "fulfilled"
    THEN [st |-> "fulfilled", val |-> [i \in 1..Len(p) |-> p[i].val]]
    ELSE [st |-> "pending"]

(* part_004:114-127 *)
AllSuccessReport(a, pr, id) ==
    [statusCode |-> 200,
     body |-> [isAvailable |-> IsAvailable(a), availability |-> a, price |-> pr,
               screenshotId |-> id, timestamp |-> "timestamp",
               executionTimeMs |-> "elapsed"]]

(* part_004:129-138: catch (error): the 500 response *)
AllCatch(e) ==
    /\ error' = e
    /\ report' = [statusCode |-> 500, body |-> [error |-> e, executionTimeMs |-> "elapsed"]]
    /\ epc' = "finally"

AllFrame ==
    UNCHANGED <<net, cfgVars, gpdVars, retryVars, cart, twin, installCalls, closeCalls, thrown,
                apc, cnt, isAvailable>>

(* part_004:47-60: browser = await puppeteer.launch(...) *)
AllLaunch ==
    /\ variant = "all"
    /\ epc = "launch"
    /\ launchCalls' = launchCalls + 1
    /\ \E ok \in BOOLEAN :
         IF ok
         THEN /\ browser' = "open"
              /\ epc' = "newPage"
              /\ UNCHANGED <<report, error>>
         ELSE /\ AllCatch(Err("launch", 0))
              /\ UNCHANGED browser
    /\ UNCHANGED <<reads, page, did, nextId, dataVars>>
    /\ AllFrame

(* part_004:62-81: browser.newPage(), then setUserAgent, setViewport, setCookie *)
AllNewPage ==
    /\ variant = "all"
    /\ epc = "newPage"
    /\ \/ /\ page' = [page EXCEPT ![0] = "open"]
          /\ \E ok \in BOOLEAN :
               IF ok THEN epc' = "goto" /\ UNCHANGED <<report, error>>
               ELSE AllCatch(Err("setup", 0))
       \/ /\ AllCatch(Err("newPage", 0))
          /\ UNCHANGED page
    /\ UNCHANGED <<reads, browser, launchCalls, did, nextId, dataVars>>
    /\ AllFrame

(* part_004:84-91: page.goto, then the status check *)
AllGoto ==
    /\ variant = "all"
    /\ epc = "goto"
    /\ \/ \E status \in Statuses :
            /\ navStatus' = status
            /\ did' = [did EXCEPT !.nav = TRUE]
            /\ IF status # 200
               THEN AllCatch(Err("status", 0))
               ELSE epc' = "scroll" /\ UNCHANGED <<report, error>>
       \/ /\ AllCatch(Err("goto", 0))
          /\ UNCHANGED <<navStatus, did>>
    /\ UNCHANGED <<reads, browser, launchCalls, page, nextId, availability, price,
                   isAvailable, uploadResult>>
    /\ AllFrame

(* part_004:94-96: scroll down, wait, scroll back; then part_004:99-102: both
   page.$eval calls are made before Promise.all is awaited *)
AllScroll ==
    /\ variant = "all"
    /\ epc = "scroll"
    /\ \E ok \in BOOLEAN :
         IF ok
         THEN /\ reads' = [p |-> <<[st |-> "pending"], [st |-> "pending"]>>, order |-> << >>]
              /\ did' = [did EXCEPT !.ext = TRUE]
              /\ epc' = "join"
              /\ UNCHANGED <<report, error>>
         ELSE /\ AllCatch(Err("evaluate", 0))
              /\ UNCHANGED <<reads, did>>
    /\ UNCHANGED <<browser, launchCalls, page, nextId, dataVars>>
    /\ AllFrame

(* part_004:100-101: one of the two page.$eval promises settles; the first reads the
   availability meta tag, the second the price meta tag (a string of characters,
   as the availability is) *)
AllReadSettles ==
    /\ variant = "all"
    /\ \E i \in 1..2 :
         /\ reads.p[i].st = "pending"
         /\ \E r \in {[st |-> "fulfilled", val |-> v] :
                         v \in IF i = 1 THEN AvailValues
                                     ELSE {<<"8", "4", "9", ".", "9", "9">>}}
                     \cup {[st |-> "rejected", err |-> Err("eval", i)]} :
              reads' = [p |-> [reads.p EXCEPT ![i] = r], order |-> Append(reads.order, i)]
    /\ UNCHANGED <<entryVars, error, page, did, nextId, dataVars>>
    /\ AllFrame

(* part_004:99: const [availability, price] = await Promise.all([...]) resumes *)
AllJoin ==
    /\ variant = "all"
    /\ epc = "join"
    /\ LET all == PromiseAll(reads.p, reads.order) IN
         /\ all.st # "pending"
         /\ IF all.st = "fulfilled"
            THEN /\ availability' = all.val[1]
                 /\ price' = all.val[2]
                 /\ did' = [did EXCEPT !.avail = TRUE, !.price = TRUE]
                 /\ epc' = "shot"
                 /\ UNCHANGED <<report, error>>
            ELSE /\ AllCatch(all.err)
                 /\ UNCHANGED <<availability, price, did>>
    /\ UNCHANGED <<reads, browser, launchCalls, page, nextId, navStatus, uploadResult>>
    /\ AllFrame

(* part_004:105: page.screenshot *)
AllShot ==
    /\ variant = "all"
    /\ epc = "shot"
    /\ \E ok \in BOOLEAN :
         IF ok
         THEN /\ did' = [did EXCEPT !.shot = TRUE]
              /\ epc' = "upload"
              /\ UNCHANGED <<report, error>>
         ELSE /\ AllCatch(Err("screenshot", 0))
              /\ UNCHANGED did
    /\ UNCHANGED <<reads, browser, launchCalls, page, nextId, dataVars>>
    /\ AllFrame

(* part_004:108-127: storage.createFile, then the 200 response *)
AllUpload ==
    /\ variant = "all"
    /\ epc = "upload"
    /\ \E ok \in BOOLEAN :
         IF ok
         THEN /\ nextId' = nextId + 1
              /\ uploadResult' = nextId + 1
              /\ did' = [did EXCEPT !.upload = TRUE]
              /\ report' = AllSuccessReport(availability, price, nextId + 1)
              /\ epc' = "finally"
              /\ UNCHANGED error
         ELSE /\ AllCatch(Err("upload", 0))
              /\ UNCHANGED <<nextId, uploadResult, did>>
    /\ UNCHANGED <<reads, browser, launchCalls, page, availability, price, navStatus>>
    /\ AllFrame

(* part_004:139-143 is the `finally` of main.js:233-238 *)
NextAll ==
    \/ AllLaunch \/ AllNewPage \/ AllGoto \/ AllScroll \/ AllReadSettles \/ AllJoin
    \/ AllShot \/ AllUpload \/ Finally

SpecAll == InitFor("all") /\ [][NextAll]_vars


-----------------------------------------------------------------------------
(* Request interception (main.js:91-99, part_005:62-82): the page hands every
   request it is about to send to the registered handler *)

(* the most requests a page load makes *)
MaxRequests == 2

(* request.resourceType() *)
ResourceTypes == {"document", "script", "xhr", "fetch", "stylesheet", "image", "font", "other"}

(* request.url(), as the sequence of its parts *)
Urls ==
    { <<"https:", "www.lego.com", "en-us", "product", "at-at-75313">>,
      <<"https:", "cdn.lego.com", "bundle.js">>,
      <<"https:", "assets.lego.com", "hero.woff2">>,
      <<"https:", "metrics.example", "collect?from=cdn.lego.com">> }

(* url.includes(part), for a part that is a host name *)
UrlIncludes(url, part) == \E i \in 1..Len(url) : url[i] = part

RequestHandlerMutantNoElse(h, req) ==
    IF h = "main"
    THEN IF req.type \in {"document", "script", "xhr", "fetch"}
         THEN <<"continue">> ELSE << >>
    ELSE IF \/ req.type \in {"document", "script", "stylesheet", "image"}
            \/ UrlIncludes(req.url, "cdn.lego.com")
            \/ UrlIncludes(req.url, "assets.lego.com")
         THEN <<"continue">> ELSE <<"abort">>

(* main.js:92-99 and part_005:65-82: the calls the handler makes on a request *)
RequestHandler(h, req) ==
    IF h = "main"
    THEN IF req.type \in {"document", "script", "xhr", "fetch"}
         THEN <<"continue">> ELSE <<"abort">>
    ELSE IF \/ req.type \in {"document", "script", "stylesheet", "image"}
            \/ UrlIncludes(req.url, "cdn.lego.com")
            \/ UrlIncludes(req.url, "assets.lego.com")
         THEN <<"continue">> ELSE <<"abort">>

FilterFrame ==
    UNCHANGED <<cfgVars, cart, twin, reads, entryVars, pipeVars, gpdVars, dataVars, retryVars>>

(* main.js:91-92, part_005:62-65: page.setRequestInterception(true), page.on('request') *)
FilterSetup ==
    /\ variant = "filter"
    /\ ~net.on
    /\ net' = [net EXCEPT !.on = TRUE]
    /\ FilterFrame

(* main.js:92-99, part_005:65-82: a request is intercepted and the handler runs *)
FilterRequest ==
    /\ variant = "filter"
    /\ net.on
    /\ Len(net.log) < MaxRequests
    /\ \E t \in ResourceTypes, u \in Urls :
         LET req == [type |-> t, url |-> u] IN
           net' = [net EXCEPT !.log = Append(@, [req |-> req,
                                                 calls |-> RequestHandler(net.handler, req)])]
    /\ FilterFrame

NextFilter == FilterSetup \/ FilterRequest

SpecFilter == InitFor("filter") /\ [][NextFilter]_vars

NextGpd ==
    \/ GpdLaunch \/ GpdNewPage \/ GpdSetup \/ GpdGoto \/ GpdWaitSel \/ GpdEvalAvail
    \/ GpdEvalPrice \/ GpdShot \/ GpdUpload \/ GpdErrShot \/ GpdErrUpload \/ GpdDelay
    \/ GpdPageClosed \/ GpdResume

NextEntry == Validate \/ ChromiumCheck \/ Install \/ Finally

NextRetry == RetryLoop \/ RetryDelay

NextRh ==
    \/ RhConnect \/ RhLaunch \/ RhNewPage \/ RhSetup \/ RhGoto \/ RhAgeGate \/ RhWaitContent
    \/ RhWait \/ RhExtract \/ RhShot \/ RhUpload \/ RhRetryReturned \/ RhRetryThrew
    \/ RhErrNewPage \/ RhErrShot \/ RhErrUpload \/ RhErrRetryDone \/ RhErrReport

NextPlain ==
    \/ PlainLaunch \/ PlainNewPage \/ PlainSetup \/ PlainGoto \/ PlainAgeGate
    \/ PlainWaitContent \/ PlainWait \/ PlainExtract \/ PlainShot \/ PlainUpload
    \/ PlainErrNewPage \/ PlainErrShot \/ PlainErrUpload \/ PlainErrReport

Next == NextEntry \/ NextRetry \/ NextGpd \/ NextRh \/ NextPlain

Spec == Init /\ [][Next]_vars

(* retry() on its own *)
NextUnit == RetryLoop \/ RetryDelay \/ UnitOp

SpecUnit == InitFor("unit") /\ [][NextUnit]_vars

(* getProductData alone, with every setting present, and with the scheduling of the
   event loop: every awaited call settles (page.goto, waitForSelector have timeouts,
   main.js:9 delay resolves) and the continuation of a settled await is run *)
GpdLiveInit == InitFor("gpd") /\ env = AllSet /\ nodeEnv = Absent

NextGpdLive == NextEntry \/ NextGpd

SpecGpdLive == GpdLiveInit /\ [][NextGpdLive]_vars /\ WF_vars(NextGpdLive)

(* every variant of the entry point, with every setting present, under the same
   scheduling: each external call returns or throws, and the continuation runs *)
LiveInit == Init /\ env = AllSet /\ nodeEnv = Absent

SpecLive == LiveInit /\ [][Next]_vars /\ WF_vars(Next)

----------------------------------------------------------------------------
(* Properties *)

Ended == epc \in {"returned", "rejected"}

Returned == epc = "returned"

Body == report.body

Has(k) == k \in DOMAIN Body

(* C1, as stated: in every run that got as far as puppeteer.launch, whichever
   stage failed, browser.close() has been invoked exactly once when the entry
   point returns. *)
C1_CloseExactlyOncePerRun ==
    (Returned /\ launchCalls > 0) => closeCalls = 1

(* C1, amended: browser.close() is never invoked twice; when the entry point
   returns or rejects it has been invoked exactly once if puppeteer.launch
   succeeded (whichever later stage failed, or none), and not at all if launch
   failed or was not reached. *)
C1_CloseOnceIffLaunched ==
    /\ closeCalls <= 1
    /\ closeCalls = 1 => browser # "none"
    /\ Ended => closeCalls = (IF browser # "none" THEN 1 ELSE 0)

C1_Witness ==
    /\ Returned
    /\ variant = "gpd"
    /\ report.statusCode = 500
    /\ Has("error") /\ Body.error.kind = "screenshot"
    /\ closeCalls = 1

(* C2: retry ends by returning the value of the first invocation that succeeds,
   after k failures and exactly k+1 invocations (k < attempts), or, every
   invocation failing, by rethrowing the error of invocation number `attempts`
   after exactly `attempts` invocations; its invocations alternate with waits of
   `delay`, one between each two consecutive invocations and none after the last. *)
C2_RetryContract ==
    /\ rCalls = Len(SelectSeq(rLog, LAMBDA x : x.ev = "op"))
    /\ \A j \in 1..Len(rLog) :
         rLog[j] = IF j % 2 = 1 THEN OpCall ELSE Waited(rDelay)
    /\ rResult.kind = "value" =>
         /\ Len(rErrs) < rAttempts
         /\ rCalls = Len(rErrs) + 1
         /\ rResult.val \in UnitValues
         /\ Len(rLog) = 2 * rCalls - 1
    /\ rResult.kind = "threw" =>
         /\ rCalls = rAttempts
         /\ Len(rErrs) = rAttempts
         /\ rResult.err = rErrs[rAttempts]
         /\ rResult.err.at = rAttempts
         /\ Len(rLog) = 2 * rAttempts - 1
    /\ (rAttempts >= 1 /\ rPc = "returned") => rResult.kind = "value"

C2_Witness ==
    /\ rAttempts = 3
    /\ rResult.kind = "value"
    /\ Len(rErrs) = 2
    /\ rLog = <<OpCall, Waited(rDelay), OpCall, Waited(rDelay), OpCall>>

(* C3, as stated: an extraction step (waitForSelector, $eval) is executed only on
   a page load whose page.goto returned status 200. *)
C3_Non200NeverExtracts ==
    did.ext => navStatus = 200

(* C4, as stated: a 200 report is returned only if the $eval of the availability
   selector (and, where the variant reads it, of the price selector) returned. *)
C4_SuccessNeedsExtraction ==
    (Returned /\ report.statusCode = 200) =>
        /\ did.avail
        /\ variant = "gpd" => did.price

ReportedAvailability ==
    IF Has("availability") THEN Body.availability ELSE Body.availabilityStatus

(* C5: in every success report isAvailable is TRUE exactly when the lower-cased
   availability string contains "instock" or "backorder" (so for
   ".../InStock", ".../BackOrder" and "OnBackOrder", and not for
   ".../OutOfStock", "in stock" or ""), and the reported availability string is
   the extracted one. *)
C5_IsAvailableIffInstockOrBackorder ==
    (report.statusCode = 200) =>
        /\ Body.isAvailable =
             (\/ includes(toLowerCase(ReportedAvailability), instock)
              \/ includes(toLowerCase(ReportedAvailability), backorder))
        /\ Body.isAvailable =
             (ReportedAvailability \in {AvailInStock, AvailBackOrder, AvailOnBack})
        /\ ReportedAvailability = availability

C5_Witness ==
    /\ Returned
    /\ report.statusCode = 200
    /\ Body.isAvailable
    /\ ReportedAvailability = AvailOnBack

(* the getProductData variant: the call getProductData() resolved, every step of
   its last attempt and every page.close() having returned *)
GpdPipelineSucceeded ==
    /\ did.nav /\ did.avail /\ did.price /\ did.shot /\ did.upload
    /\ \A i \in 0..cur : closeSt[i] = "ok"

(* the retry-helper variant: every step of the try block returned *)
RhPipelineSucceeded ==
    did.nav /\ did.avail /\ did.shot /\ did.upload

(* C6: every value the entry point (main.js, both variants) returns has status
   200 if the whole pipeline succeeded and 500 if not, an `error` field only
   with status 500 and isAvailable / availability only with status 200. *)
C6_StatusMatchesOutcome ==
    (Returned /\ variant \in {"gpd", "rh"}) =>
        /\ report.statusCode \in {200, 500}
        /\ report.statusCode = 200 <=>
             IF variant = "gpd" THEN GpdPipelineSucceeded ELSE RhPipelineSucceeded
        /\ Has("error") => report.statusCode = 500
        /\ (Has("isAvailable") \/ Has("availability") \/ Has("availabilityStatus"))
             => report.statusCode = 200
        /\ report.statusCode = 200 => Has("isAvailable")

C6_Witness ==
    /\ Returned
    /\ variant = "gpd"
    /\ report.statusCode = 500
    /\ Has("error") /\ Body.error.kind = "pageClose"
    /\ did.upload

(* C7: in the getProductData variant the steps of an attempt complete in the
   order navigation (status 200), availability, price, screenshot, createFile,
   and a 200 report is built only after all of them; its screenshotId is the id
   that createFile returned, the last id the storage handed out, and its
   availability and price are those extracted in that attempt. *)
C7_SuccessAfterAllSteps ==
    variant = "gpd" =>
        /\ did.upload => did.shot
        /\ did.shot => did.price
        /\ did.price => did.avail
        /\ did.avail => did.ext
        /\ did.ext => (did.nav /\ navStatus = 200)
        /\ report.statusCode = 200 =>
             /\ did.upload
             /\ Body.screenshotId = uploadResult
             /\ Body.screenshotId = nextId
             /\ Body.availability = availability
             /\ Body.price = price

C7_Witness ==
    /\ Returned
    /\ variant = "gpd"
    /\ report.statusCode = 200
    /\ cur = 2
    /\ cnt.errUploadOk = 2
    /\ Body.screenshotId = 3
    /\ Body.price = "849.99"

(* C8, as stated: in the getProductData variant, once navigation has failed on
   all 3 attempts, what the entry point returns is a 500 report whose error is
   the navigation failure and whose body has no screenshotId. *)
C8_NavigationFailsOnAllAttempts ==
    (variant = "gpd" /\ Returned /\ cnt.navFail = MAX_RETRIES) =>
        /\ report.statusCode = 500
        /\ Has("error") /\ Body.error.kind \in {"goto", "http"}
        /\ ~Has("screenshotId")

(* C9, as stated: once the primary upload has failed on all attempts, what the
   entry point returns is a 500 report whose error is the upload error and
   whose body has none of the extracted fields. *)
C9_UploadFailsOnAllAttempts ==
    (variant \in {"gpd", "rh"} /\ Returned /\ cnt.uploadFail = MAX_RETRIES) =>
        /\ report.statusCode = 500
        /\ Has("error") /\ Body.error.kind = "upload"
        /\ ~Has("isAvailable") /\ ~Has("availability") /\ ~Has("price")
        /\ ~Has("availabilityStatus")

(* C10, as stated: when the error-path screenshot or its upload has failed in the
   attempt that ended the run, the error the entry point reports is the error
   that triggered the catch block of that attempt. *)
C10_ErrorScreenshotFailureKeepsError ==
    (variant \in {"gpd", "rh"} /\ Returned /\ did.errFail /\ apc = "ended") =>
        /\ report.statusCode = 500
        /\ Has("error") /\ Body.error = error

(* C11, as stated: the primary evidence upload keeps its full attempt budget
   whatever failed before it: an attempt sequence ends on an upload error only
   after the upload itself has failed MAX_RETRIES (RETRY_ATTEMPTS) times. *)
C11_UploadKeepsFullBudget ==
    (variant \in {"gpd", "rh"} /\ apc = "ended" /\ error.kind = "upload") =>
        cnt.uploadFail = MAX_RETRIES

(* C12, as stated: the promise of the entry point never rejects: whatever fails,
   the cleanup step included, the run ends by returning a report. *)
C12_EntryPointNeverThrows ==
    epc # "rejected"

AbsentOrEmpty == {k \in RequiredKeys : env[k] = Absent \/ env[k] = Str("")}

Range(s) == {s[i] : i \in 1..Len(s)}

(* C13: when one of the four required settings is absent or empty the run does
   nothing but return: no Chromium check or install, no launch, no page, no
   storage call; what it returns is a 500 whose body names each absent or empty
   key once and no other key.  With all four set no such report is returned. *)
C13_MissingSettingsFailFast ==
    /\ AbsentOrEmpty # {} =>
         /\ epc \in {"validate", "returned"}
         /\ installCalls = 0 /\ launchCalls = 0 /\ closeCalls = 0
         /\ browser = "none" /\ apc = "idle"
         /\ cnt = ZeroCnt /\ nextId = 0 /\ rCalls = 0
         /\ epc = "returned" =>
              /\ report.statusCode = 500
              /\ Has("keys")
              /\ Range(Body.keys) = AbsentOrEmpty
              /\ Len(Body.keys) = Cardinality(AbsentOrEmpty)
    /\ AbsentOrEmpty = {} => ~Has("keys")

C13_Witness ==
    /\ Returned
    /\ env["APPWRITE_ENDPOINT"] = Str("set")
    /\ env["APPWRITE_PROJECT_ID"] = Absent
    /\ env["APPWRITE_API_KEY"] = Str("")
    /\ env["APPWRITE_BUCKET_ID"] = Str("set")
    /\ Body.keys = <<"APPWRITE_PROJECT_ID", "APPWRITE_API_KEY">>

(* C14, as stated: the body of a failure report holds the error's stack only in
   a run whose NODE_ENV is 'development'. *)
C14_StackOnlyInDevelopment ==
    (report.statusCode = 500 /\ Has("stack")) => nodeEnv = Str("development")

(* C15, as stated: every report the entry point returns, success or failure,
   has the field executionTimeMs. *)
C15_EveryReportHasExecutionTime ==
    Returned => Has("executionTimeMs")

(* C16, as stated: when browser.close() is called, every page that
   browser.newPage() made during the run has been closed by page.close(). *)
C16_PagesClosedBeforeBrowserClose ==
    closeCalls > 0 => \A i \in DOMAIN page : page[i] # "open"

OpenPages == {i \in DOMAIN page : page[i] = "open"}

(* C17, as stated: at every point of a run at most one page is open in the
   browser session. *)
C17_AtMostOnePageOpen ==
    Cardinality(OpenPages) <= 1

(* The states of a run: 0 Idle, 1 SessionAcquired, 2 Navigated, 3 Extracted,
   4 EvidenceCaptured, 5 Reported(success); the steps are those of the attempt
   in progress. *)
Phase ==
    IF report.statusCode = 200 THEN 5
    ELSE IF browser = "none" THEN 0
    ELSE IF ~did.nav THEN 1
    ELSE IF ~(did.avail /\ (variant = "gpd" => did.price)) THEN 2
    ELSE IF ~(did.shot /\ did.upload) THEN 3
    ELSE 4

ReportedFailure == report.statusCode = 500

NoStateSkipped == variant \in {"gpd", "rh"} => (Phase' <= Phase + 1)

(* C18: in both variants of main.js a run never skips a state on its way from
   Idle through SessionAcquired, Navigated, Extracted and EvidenceCaptured to
   Reported(success) (a step moves it at most one state forward; a retry moves it
   back), and the caller receives a report, of success or of a failure from any
   state after SessionAcquired, only when browser.close() has been called and no
   session is open. *)
C18_StatesInOrderAndReleaseBeforeReport ==
    /\ [][NoStateSkipped]_vars
    /\ [](Returned => browser # "open")
    /\ []((Returned /\ browser # "none") => closeCalls = 1)
    /\ []((epc = ReturnInTry /\ variant \in {"gpd", "rh"} /\ browser = "open") => closeCalls = 0)

C18_Witness ==
    /\ Returned
    /\ variant = "gpd"
    /\ ReportedFailure
    /\ Phase = 3
    /\ did.shot
    /\ browser = "closed"

(* C19, as stated: in the add-to-cart script, a run in which puppeteer.launch
   succeeded does not end without browser.close() having been called. *)
C19_CartClosesBrowserOnEveryExit ==
    (variant = "cart" /\ epc = "returned" /\ launchCalls > 0) => closeCalls > 0

LaunchFailed == launchCalls = 1 /\ browser = "none"

NothingRetried ==
    /\ cnt = ZeroCnt
    /\ \A i \in DOMAIN page : page[i] = "none"
    /\ nextId = 0
    /\ rCalls = 0 /\ rDelays = 0

(* C20: puppeteer.launch is attempted at most once per run.  After a failed
   launch, and after a configuration error, no page is created, no navigation is
   made, nothing is uploaded and no retry delay is waited; the run returns a 500
   report, whose error after a failed launch is the launch error. *)
C20_NonRetryableErrorsShortCircuit ==
    variant \in {"gpd", "rh", "plain"} =>
        /\ launchCalls <= 1
        /\ LaunchFailed =>
             /\ NothingRetried
             /\ Returned =>
                  /\ report.statusCode = 500
                  /\ Has("error") /\ Body.error = Err("launch", 0)
                  /\ closeCalls = 0
        /\ (epc # "validate" /\ AbsentOrEmpty # {}) =>
             /\ NothingRetried
             /\ launchCalls = 0
             /\ Returned /\ report.statusCode = 500

C20_Witness ==
    /\ Returned
    /\ variant = "gpd"
    /\ LaunchFailed
    /\ report.statusCode = 500
    /\ Body.error.kind = "launch"

AgeGateContinues ==
    /\ (variant = "rh" /\ rOp = "ageGate" /\ rPc = "call") =>
         (rPc' = "returned" /\ rResult'.val \in AgeGateOutcomes /\ error' = error)
    /\ (variant = "rh" /\ rOp = "ageGate" /\ rPc = "returned") =>
         (rOp' = "waitContent" /\ apc' = "retry" /\ error' = error /\ report' = report)
    /\ (variant = "plain" /\ apc = "ageGate") =>
         (apc' = "waitContent" /\ error' = error /\ report' = report)

(* C21: in the retry-helper variant and in part_002 the age-gate sub-step never
   raises an error into the run: whatever happens in it (overlay absent, button
   not found, click failing, navigation wait timing out, overlay dismissed) the
   next step is the wait for content, taken from the same state, and no error of
   the age gate is ever caught or reported. *)
C21_AgeGateFailureIsNotFatal ==
    /\ [][AgeGateContinues]_vars
    /\ [](error.kind # "ageGate")
    /\ [](rOp = "ageGate" => (rErrs = << >> /\ rPc # "threw" /\ apc = "retry"))

C21_Witness ==
    /\ variant = "rh"
    /\ rOp = "ageGate" /\ rPc = "returned"
    /\ rResult.val = "clickFailed"
    /\ error = NoErr

(* C22, as stated: when the last attempt of getProductData has thrown, the error
   in the failure report the entry point returns is the error of that attempt. *)
C22_LastErrorReachesReport ==
    (variant = "gpd" /\ Returned /\ completion[MAX_RETRIES - 1].st = "rejected") =>
        /\ report.statusCode = 500
        /\ Has("error") /\ Body.error = completion[MAX_RETRIES - 1].err

NextAttemptStarts ==
    (variant = "gpd" /\ error # NoErr /\ error' = NoErr) =>
        (cur' = cur + 1 /\ apc' = "newPage" /\ cnt'.newPage = cnt.newPage + 1)

(* C23: in getProductData an error caught in the try block of an attempt is handed
   on in one of two ways only: the next call of getProductData is made, which
   always happens while retry budget is left, or, on attempt MAX_RETRIES, the chain
   of attempts ends with that error. The chain stops only on success, on attempt
   MAX_RETRIES, or when browser.newPage() throws outside the try; no run makes more
   than MAX_RETRIES attempts; and the report returned by a run whose last attempt
   failed is the failure report *)
C23_RetryUntilExhausted ==
    /\ [](variant = "gpd" =>
            /\ cnt.newPage <= MAX_RETRIES /\ cur <= MAX_RETRIES - 1
            /\ apc = "delay" => (error # NoErr /\ cur < MAX_RETRIES - 1)
            /\ apc = "ended" =>
                 (completion[cur].st = "fulfilled" \/ cur = MAX_RETRIES - 1 \/ error = NoErr)
            /\ (Returned /\ completion[MAX_RETRIES - 1].st = "rejected") =>
                 report.statusCode = 500)
    /\ [][NextAttemptStarts]_vars
    /\ (variant = "gpd" /\ error # NoErr) ~> (error = NoErr \/ apc = "ended")

C23_Witness ==
    /\ variant = "gpd" /\ Returned
    /\ cnt.newPage = MAX_RETRIES
    /\ completion[MAX_RETRIES - 1].st = "rejected"
    /\ report.statusCode = 500 /\ Body.error = completion[MAX_RETRIES - 1].err

(* C24, as stated: in getProductData the error-path screenshot has been attempted
   for an attempt before the delay that precedes the next attempt and before the
   attempt's error is rethrown, and no run that launched the browser returns the
   failure report without an error-path screenshot having been attempted *)
C24_ErrorCaptureBeforePropagation ==
    variant = "gpd" =>
        /\ apc = "delay" => cnt.errShot = cur + 1
        /\ \A i \in Calls : completion[i].st = "rejected" => cnt.errShot >= i + 1
        /\ (Returned /\ report.statusCode = 500 /\ launchCalls > 0 /\ browser # "none") =>
             cnt.errShot >= 1

(* C25, as stated: in the add-to-cart script, an invocation that follows another
   one in the same process returns the same response whether `installed` kept its
   value or was reset to false before it *)
C25_InstalledFlagIsOnlyAnOptimization ==
    (variant = "cart" /\ epc = "returned" /\ cart.runs >= 2) =>
        (twin.pc = "returned" /\ twin.report = report)

(* C25, amended: the two responses are the same unless the installation command,
   run again because the flag was reset, throws: the invocation then sends that
   error, where the invocation that kept the flag went on to the browser *)
C25_SameReportUnlessReinstallFails ==
    (variant = "cart" /\ epc = "returned" /\ cart.runs >= 2) =>
        /\ twin.pc = "returned"
        /\ \/ twin.report = report
           \/ /\ cart.installed
              /\ twin.report = CartErrorReport(Err("install", cart.runs))

C25_Witness ==
    /\ variant = "cart" /\ epc = "returned" /\ cart.runs = 2
    /\ cart.installed
    /\ report = CartReport(TRUE)
    /\ twin.pc = "returned" /\ twin.report = report

(* C26: where availability and price are read by Promise.all of two $eval calls,
   the script goes on to the screenshot only when both reads have fulfilled,
   whichever settled first; the pair it destructures is (value of the first call,
   value of the second call); and when either read rejects, that run takes no
   screenshot and returns no success report *)
C26_ReadsJoinedInFixedOrder ==
    variant = "all" =>
        /\ (did.avail \/ did.shot \/ epc \in {"shot", "upload"}) =>
             /\ \A i \in 1..2 : reads.p[i].st = "fulfilled"
             /\ availability = reads.p[1].val
             /\ price = reads.p[2].val
        /\ (\E i \in 1..2 : reads.p[i].st = "rejected") =>
             (~did.shot /\ ~did.upload /\ report.statusCode # 200)

C26_Witness ==
    /\ variant = "all" /\ epc = "returned" /\ report.statusCode = 200
    /\ reads.order = <<2, 1>>
    /\ Body.availability = reads.p[1].val /\ Body.price = reads.p[2].val

(* C27: getProductData waits once between two consecutive attempts and never after
   the last one: when n calls of getProductData have been made, n - 1 delays have
   ended, at most MAX_RETRIES - 1 in a run, whether the run ends in success or
   after the last attempt failed *)
C27_OneDelayBetweenAttempts ==
    (variant = "gpd" /\ cnt.newPage >= 1) =>
        /\ cnt.delay <= MAX_RETRIES - 1
        /\ cnt.delay = cnt.newPage - 1
        /\ cnt.delay = cur
        /\ completion[MAX_RETRIES - 1].st = "rejected" => cnt.delay = MAX_RETRIES - 1

C27_Witness ==
    /\ variant = "gpd" /\ Returned /\ report.statusCode = 200
    /\ cnt.newPage = MAX_RETRIES /\ cnt.delay = MAX_RETRIES - 1

NewPageFailurePropagates ==
    (/\ variant = "gpd" /\ epc = "awaitG" /\ epc' # epc
     /\ Settled(0).st = "rejected" /\ Settled(0).err.kind = "newPage") =>
        (epc' = "finally" /\ report' = GpdFailureReport(Settled(0).err))

(* C28: in getProductData an error thrown by browser.newPage() never enters the
   catch block of an attempt: the call it was made in rejects at once, with no
   page, no error screenshot, no delay and no further call, and the awaiting entry
   point goes straight to its catch block, which builds the failure report with
   that error; this is so on the first attempt too, with the whole retry budget
   left *)
C28_NewPageFailureIsNotRetried ==
    /\ [][NewPageFailurePropagates]_vars
    /\ [](variant = "gpd" =>
            /\ error.kind # "newPage"
            /\ \A i \in Calls :
                 /\ completion[i].err.kind # "newPage"
                 /\ G[i].err.kind = "newPage" =>
                      /\ cur = i /\ apc = "ended" /\ page[i] = "none"
                      /\ completion[i] = Unused
                      /\ cnt.newPage = i + 1 /\ cnt.errShot = i /\ cnt.delay = i
            /\ (Returned /\ G[0].err.kind = "newPage") =>
                 (report = GpdFailureReport(Err("newPage", 0)) /\ cnt.errShot = 0))

C28_Witness ==
    /\ variant = "gpd" /\ Returned
    /\ G[0] = Rejected(Err("newPage", 0))
    /\ ShouldRetry(cur)
    /\ report.statusCode = 500 /\ Body.error = Err("newPage", 0)
    /\ cnt.errShot = 0 /\ cnt.delay = 0

AgeGateCalledOnce ==
    /\ (variant = "rh" /\ rOp' = "ageGate" /\ rOp # "ageGate") =>
         (rOp = "goto" /\ rPc = "returned" /\ rCalls' = 0)
    /\ (variant = "rh" /\ rOp = "ageGate" /\ rOp' # "ageGate") =>
         (rOp' = "waitContent" /\ rLog = <<OpCall>>)

(* C29: in the retry-helper variant the operation handed to retry for the age gate
   returns on its first invocation, whether the overlay is absent, dismissed, or
   the click or the navigation wait fails: retry invokes it once, never waits
   RETRY_DELAY for it, and the run enters that retry once, after the navigation,
   and leaves it for the content wait *)
C29_AgeGateInvokedOnceWithoutDelay ==
    /\ [][AgeGateCalledOnce]_vars
    /\ []((variant = "rh" /\ rOp = "ageGate") =>
            /\ rCalls <= 1 /\ rDelays = 0 /\ rI = 0 /\ rPc \notin {"delay", "threw"}
            /\ \A k \in 1..Len(rLog) : rLog[k] = OpCall
            /\ rPc = "returned" => (rCalls = 1 /\ rLog = <<OpCall>>))

C29_Witness ==
    /\ variant = "rh" /\ rOp = "ageGate" /\ rPc = "returned"
    /\ rResult.val = "navTimeout"
    /\ rCalls = 1 /\ rDelays = 0

(* C30: in the retry-helper variant a run uploads the primary screenshot
   successfully at most once; while the retried steps run, the page created at the
   start of the run is the only page there is; and the error-path screenshot is
   called on the page the catch block creates, open at that moment, never on the
   page the failure happened on (the catch block of part_002 does the same) *)
C30_OnePageOneUploadErrorShotOnNewPage ==
    /\ variant = "rh" =>
         /\ cnt.uploadOk <= 1 /\ cnt.newPage <= 2
         /\ apc = "retry" => (page[0] = "open" /\ page[1] = "none" /\ cnt.newPage = 1)
         /\ page[1] # "none" => error # NoErr
         /\ did.errShotOn \in {-1, 1}
         /\ (cnt.errShot > 0 \/ apc \in {"errShot", "errRetry"}) =>
              (page[1] # "none" /\ cnt.errShot <= 1)
         /\ cnt.errShot > 0 => did.errShotOn = 1
    /\ variant = "plain" =>
         /\ did.errShotOn \in {-1, 1}
         /\ cnt.errShot > 0 => (did.errShotOn = 1 /\ page[1] # "none" /\ error # NoErr)

C30_Witness ==
    /\ variant = "rh" /\ Returned /\ report.statusCode = 500
    /\ Has("error") /\ Body.error.kind = "upload"
    /\ cnt.uploadOk = 0 /\ cnt.uploadFail = RETRY_ATTEMPTS
    /\ did.errShotOn = 1 /\ page[0] # "none" /\ page[1] # "none"

NothingAfterPrimaryUpload ==
    (variant = "gpd" /\ \E k \in Calls : completion[k].st = "fulfilled") =>
        /\ cnt'.goto = cnt.goto /\ cnt'.newPage = cnt.newPage
        /\ cnt'.uploadOk = cnt.uploadOk /\ cnt'.uploadFail = cnt.uploadFail
        /\ cnt'.errShot = cnt.errShot /\ cnt'.errUploadOk = cnt.errUploadOk
        /\ nextId' = nextId /\ uploadResult' = uploadResult /\ completion' = completion

(* C31: in the getProductData variant, once attempt k+1 has succeeded, the run has
   made one successful primary upload, at most k successful error-screenshot
   uploads and at most k+1 navigations; no navigation, page creation or upload follows;
   and the screenshotId of the success value, and of the 200 report, is the id
   createFile returned for the primary upload, which is later than the id of
   every error screenshot *)
C31_OnePrimaryUploadPerSuccess ==
    /\ [][NothingAfterPrimaryUpload]_vars
    /\ [](variant = "gpd" =>
            /\ cnt.uploadOk <= 1
            /\ \A k \in Calls : completion[k].st = "fulfilled" =>
                 /\ cur = k /\ apc = "ended"
                 /\ cnt.uploadOk = 1 /\ cnt.errUploadOk <= k /\ cnt.goto <= k + 1
                 /\ completion[k].val.screenshotId = uploadResult
                 /\ uploadResult = cnt.errUploadOk + 1
            /\ report.statusCode = 200 =>
                 /\ completion[cur].st = "fulfilled"
                 /\ Body.screenshotId = uploadResult
                 /\ Body.screenshotId > cnt.errUploadOk)

C31_Witness ==
    /\ variant = "gpd" /\ Returned /\ report.statusCode = 200
    /\ cur = 1 /\ cnt.errUploadOk = 1 /\ cnt.uploadOk = 1
    /\ Body.screenshotId = 2

Quiescent ==
    /\ Ended
    /\ apc \in {"idle", "ended"}
    /\ \A i \in Calls : closeSt[i] # "pending"

(* C32: when every external call returns or throws, every invocation of the entry
   point ends (it returns its report, or rejects), and so does every attempt it
   started; until then it makes a bounded number of external calls: one launch, one
   install, one browser.close, and in the getProductData variant at most MAX_RETRIES
   of each page operation, in the retry-helper variant at most RETRY_ATTEMPTS
   invocations and RETRY_ATTEMPTS - 1 delays per retried step and at most two
   pages *)
C32_EveryInvocationTerminates ==
    /\ <>Quiescent
    /\ [](/\ launchCalls <= 1 /\ closeCalls <= 1 /\ installCalls <= 1
          /\ variant = "gpd" =>
               /\ cur <= MAX_RETRIES - 1
               /\ \A k \in DOMAIN cnt : cnt[k] <= MAX_RETRIES
          /\ variant = "rh" =>
               /\ rCalls <= RETRY_ATTEMPTS /\ rDelays <= RETRY_ATTEMPTS - 1
               /\ rI <= RETRY_ATTEMPTS - 1 /\ Len(rLog) <= 2 * RETRY_ATTEMPTS - 1
               /\ cnt.newPage <= 2 /\ cnt.errShot <= 1
               /\ \A k \in DOMAIN cnt : cnt[k] <= 2 * RETRY_ATTEMPTS)

C32_Witness ==
    /\ variant = "gpd" /\ Quiescent /\ Returned
    /\ cnt.newPage = MAX_RETRIES /\ cnt.goto = MAX_RETRIES /\ cnt.uploadFail = MAX_RETRIES
    /\ cnt.errShot = MAX_RETRIES /\ cnt.pageClose = MAX_RETRIES
    /\ report.statusCode = 500

ConnectionCheckedOnce ==
    (variant = "rh" /\ epc = "connect" /\ epc' # epc) =>
        /\ \/ epc' = "chromium" /\ report' = NoReport
           \/ epc' = "returned" /\ report' = ConnectionFailedReport
        /\ UNCHANGED <<launchCalls, installCalls, browser, retryVars, pipeVars>>

(* C33: in the retry-helper variant the connection check is one step, not handed to
   retry: it either lets the run go on to the Chromium check, or ends the
   invocation with status 500 and the text 'Failed to establish connection with
   Appwrite'; a run that reports that text has returned with no install, no
   launch, no page, no upload and no call of retry *)
C33_ConnectionFailureReturnsEarly ==
    /\ [][ConnectionCheckedOnce]_vars
    /\ []((variant = "rh" /\ report = ConnectionFailedReport) =>
            /\ Returned /\ report.statusCode = 500
            /\ Body.text = "Failed to establish connection with Appwrite"
            /\ missingVars = << >>
            /\ installCalls = 0 /\ launchCalls = 0 /\ closeCalls = 0 /\ browser = "none"
            /\ cnt = ZeroCnt /\ nextId = 0 /\ did = NoDid
            /\ \A i \in DOMAIN page : page[i] = "none"
            /\ rOp = "none" /\ rCalls = 0 /\ rDelays = 0 /\ apc = "idle")
    /\ []((variant = "rh" /\ epc = "connect") => (launchCalls = 0 /\ installCalls = 0))

C33_Witness ==
    /\ variant = "rh" /\ Returned
    /\ report = ConnectionFailedReport
    /\ launchCalls = 0 /\ installCalls = 0

InstallOnlyAfterFailedCheck ==
    /\ installCalls' # installCalls =>
         (epc = "install" /\ installCalls = 0 /\ installCalls' = 1 /\ launchCalls = 0)
    /\ (epc' = "install" /\ epc # "install") => epc = "chromium"
    /\ (epc = "chromium" /\ epc' # epc) =>
         (epc' \in {"launch", "install"} /\ installCalls' = installCalls)
    /\ (epc = "install" /\ epc' # epc) =>
         \/ epc' = "launch" /\ report' = NoReport
         \/ epc' = "returned" /\ report' = InstallFailedReport

(* C34: the install command is run only from the catch of the failed version
   check, once at most in an invocation and before any launch; when it throws, the
   invocation returns status 500 with the installation-failure text and
   puppeteer.launch is never called *)
C34_InstallOnlyWhenCheckFails ==
    /\ [][InstallOnlyAfterFailedCheck]_vars
    /\ [](installCalls <= 1)
    /\ [](report = InstallFailedReport =>
            /\ Returned /\ report.statusCode = 500
            /\ Body.text \in {"Chromium installation failed", "Error installing Chromium"}
            /\ installCalls = 1
            /\ launchCalls = 0 /\ browser = "none" /\ closeCalls = 0
            /\ apc = "idle" /\ cnt = ZeroCnt)

C34_Witness ==
    /\ variant = "gpd" /\ Returned
    /\ report = InstallFailedReport
    /\ installCalls = 1 /\ launchCalls = 0

(* C35: retry called with attempts <= 0 leaves its loop at the first test: the
   operation is never invoked, no delay is taken, nothing is thrown, and the call
   returns undefined *)
C35_RetryWithNoAttemptsReturnsUndefined ==
    (variant = "unit" /\ rAttempts <= 0) =>
        /\ rCalls = 0 /\ rDelays = 0 /\ rI = 0
        /\ rLog = << >> /\ rErrs = << >>
        /\ rPc \in {"loop", "returned"}
        /\ rPc = "loop" => rResult = NoResult
        /\ rPc = "returned" => rResult = [kind |-> "undefined", val |-> "", err |-> NoErr]

C35_Witness ==
    /\ variant = "unit" /\ rAttempts = -1
    /\ rPc = "returned" /\ rResult.kind = "undefined"
    /\ rCalls = 0 /\ rDelays = 0

(* C36: the request handler makes exactly one call on every request it is handed,
   either continue() or abort(), and on a request of resource type 'document' that
   call is continue(), whatever its URL *)
C36_EveryRequestResolvedOnce ==
    variant = "filter" =>
        \A k \in 1..Len(net.log) :
            /\ Len(net.log[k].calls) = 1
            /\ net.log[k].calls[1] \in {"continue", "abort"}
            /\ net.log[k].req.type = "document" => net.log[k].calls = <<"continue">>

C36_Witness ==
    /\ variant = "filter" /\ net.handler = "main" /\ Len(net.log) = 2
    /\ net.log[1].req.type = "document" /\ net.log[1].calls = <<"continue">>
    /\ net.log[2].req.type = "font" /\ net.log[2].calls = <<"abort">>

====
